---- MODULE Spec2Model ----
(***************************************************************************)
(* A model of the Nubi control-plane daemon: the proxy-host store and its  *)
(* nginx fragments (internal/nginx/proxy_host.go, internal/api/hosts.go),  *)
(* the certificate and tag store (certificate manager, api/certificates.go,*)
(* api/letsencrypt.go) and the default route with its maintenance shadow   *)
(* (internal/nginx/default_route.go, the maintenance handler).             *)
(*                                                                         *)
(* Strings the code inspects character by character (domains, targets,     *)
(* file names, maintenance messages) are sequences of one-character        *)
(* strings.  Opaque strings (ids, tag ids, custom directives) are TLA+     *)
(* strings.  Times are whole hours.                                        *)
(***************************************************************************)
EXTENDS Integers, Sequences, FiniteSets, TLC

\* ------------------------------------------------------------------ bounds

\* uuid.New() draws for proxy hosts that one run may make.
MaxIds == 2
\* uuid.New() draws for certificates that one run may make.
MaxCerts == 2
\* The latest hour the wall clock reaches.
MaxClock == 2881
\* Goroutines serving requests concurrently.
MaxProcs == 2
\* uuid.New() draws for tags that one run may make.
MaxTags == 2
\* WebSocket connections that one run may open.
MaxSinks == 2
\* Broadcasts that the hub may take while a client is registered.
MaxMsgs == 2
\* Messages on one connection's wire up to which a get_status is still read.
MaxLog == 6

\* ------------------------------------------------------- program constants

\* 90 * 24 * time.Hour: the days of validity IssueCertificate assumes.
IssueValidityDays == 90
\* daysUntilExpiry < 30
RenewThresholdDays == 30
\* Hours() / 24
HoursPerDay == 24

\* ------------------------------------------------------------- characters

Lower == {"a", "b", "c", "d", "e", "f", "g", "h", "i", "j", "k", "l", "m",
          "n", "o", "p", "q", "r", "s", "t", "u", "v", "w", "x", "y", "z"}
Upper == {"A", "B", "C", "D", "E", "F", "G", "H", "I", "J", "K", "L", "M",
          "N", "O", "P", "Q", "R", "S", "T", "U", "V", "W", "X", "Y", "Z"}
Digits == {"0", "1", "2", "3", "4", "5", "6", "7", "8", "9"}
Alnum == Lower \cup Upper \cup Digits

\* strings.HasPrefix
HasPrefix(s, p) ==
    /\ Len(s) >= Len(p)
    /\ SubSeq(s, 1, Len(p)) = p

\* strings.TrimPrefix
TrimPrefix(s, p) ==
    IF HasPrefix(s, p) THEN SubSeq(s, Len(p) + 1, Len(s)) ELSE s

\* The pieces of s between occurrences of sep (strings.Split).
RECURSIVE SplitOn(_, _)
SplitOn(s, sep) ==
    IF s = <<>> THEN << <<>> >>
    ELSE LET rest == SplitOn(Tail(s), sep) IN
         IF Head(s) = sep THEN << <<>> >> \o rest
         ELSE << <<Head(s)>> \o Head(rest) >> \o Tail(rest)

\* One label of domainRegex: [a-zA-Z0-9]([a-zA-Z0-9-]*[a-zA-Z0-9])?
MatchLabel(l) ==
    /\ Len(l) >= 1
    /\ l[1] \in Alnum
    /\ l[Len(l)] \in Alnum
    /\ \A i \in 1..Len(l) : l[i] \in Alnum \cup {"-"}

\* domainRegex.MatchString: a label, then zero or more "." label.
domainRegex(s) ==
    LET labels == SplitOn(s, ".") IN
    \A i \in 1..Len(labels) : MatchLabel(labels[i])

\* validateDomain: "" stands for a nil error.
validateDomain(domain) ==
    IF domain = <<>> THEN "domain is required"
    ELSE IF ~domainRegex(TrimPrefix(domain, <<"*", ".">>)) THEN "invalid domain format"
    ELSE ""

HttpScheme == <<"h", "t", "t", "p", ":", "/", "/">>
HttpsScheme == <<"h", "t", "t", "p", "s", ":", "/", "/">>

\* validateTarget
validateTarget(target) ==
    IF target = <<>> THEN "target is required"
    ELSE IF ~HasPrefix(target, HttpScheme) /\ ~HasPrefix(target, HttpsScheme)
         THEN "target must start with http:// or https://"
    ELSE ""

\* strings.ReplaceAll(domain, "*", "_wildcard_") then ReplaceAll(., ".", "_")
RECURSIVE safeDomain(_)
safeDomain(d) ==
    IF d = <<>> THEN <<>>
    ELSE (IF Head(d) = "*" THEN <<"_", "w", "i", "l", "d", "c", "a", "r", "d", "_">>
          ELSE IF Head(d) = "." THEN <<"_">>
          ELSE <<Head(d)>>) \o safeDomain(Tail(d))

\* configPath and symlinkPath: the same file name under the two directories.
configPath(domain) == <<"nubi-host-">> \o safeDomain(domain) \o <<".conf">>

\* ------------------------------------------------------------ finite maps

Put(f, k, v) == [x \in (DOMAIN f) \cup {k} |-> IF x = k THEN v ELSE f[x]]
Del(f, k) == [x \in (DOMAIN f) \ {k} |-> f[x]]

\* The orders in which a range over the map m may visit its keys.
Orders(S) ==
    {s \in [1..Cardinality(S) -> S] : \A i, j \in 1..Cardinality(S) : s[i] = s[j] => i = j}

\* ------------------------------------------------------------- identifiers

\* The strings uuid.New().String() returns, in the order of the draws.
IdStr(n) == <<"h1", "h2", "h3", "h4", "h5", "h6">>[n]
CertIdStr(n) == <<"c1", "c2", "c3", "c4", "c5", "c6">>[n]
TagIdStr(n) == <<"t1", "t2", "t3", "t4", "t5", "t6">>[n]

\* ------------------------------------------------------------ proxy hosts

\* HasLoadBalancing
HasLoadBalancing(h) == Len(h.Backends) > 1

\* regexp [^a-zA-Z0-9] replaced by "_"
RECURSIVE safeUpstream(_)
safeUpstream(d) ==
    IF d = <<>> THEN <<>>
    ELSE <<IF Head(d) \in Alnum THEN Head(d) ELSE "_">> \o safeUpstream(Tail(d))

\* UpstreamName
UpstreamName(h) == <<"nubi_">> \o safeUpstream(h.Domain)

\* proxyHostTemplate executed on a host: the parts of the fragment that
\* depend on the host, in the order the template emits them.
proxyHostTemplate(h) ==
    [ domain    |-> h.Domain,
      id        |-> h.ID,
      upstream  |-> IF HasLoadBalancing(h)
                    THEN << [ name    |-> UpstreamName(h),
                              method  |-> IF h.LBMethod \in {"least_conn", "ip_hash"}
                                          THEN h.LBMethod ELSE "",
                              servers |-> [ i \in 1..Len(h.Backends) |->
                                            [ address |-> h.Backends[i].Address,
                                              weight  |-> IF h.Backends[i].Weight > 1
                                                          THEN h.Backends[i].Weight ELSE 0,
                                              backup  |-> h.Backends[i].Backup ] ] ] >>
                    ELSE <<>>,
      listen443 |-> h.SSL,
      forceSSL  |-> h.SSL /\ h.ForceSSL,
      location  |-> IF h.Maintenance THEN <<"return 503">>
                    ELSE IF HasLoadBalancing(h)
                         THEN <<"proxy_pass http://">> \o UpstreamName(h)
                         ELSE <<"proxy_pass ">> \o h.Target,
      websocket |-> ~h.Maintenance /\ h.WebSocket,
      custom    |-> h.CustomNginx ]

\* The store and the files it owns, threaded through the manager's methods:
\*   hosts     m.hosts, id -> *ProxyHost
\*   hostsFile the hosts last written to proxy_hosts.json
\*   available sites-available: file name -> fragment
\*   enabled   sites-enabled: the file names that have a symlink
\*   nextId    the number of the next uuid draw

\* updateSymlink
updateSymlink(w, host) ==
    [w EXCEPT !.enabled = IF host.Enabled
                          THEN @ \cup {configPath(host.Domain)}
                          ELSE @ \ {configPath(host.Domain)}]

\* writeNginxConfig
writeNginxConfig(w, host) ==
    updateSymlink(
        [w EXCEPT !.available = Put(@, configPath(host.Domain), proxyHostTemplate(host))],
        host)

\* removeNginxConfig
removeNginxConfig(w, domain) ==
    [w EXCEPT !.enabled = @ \ {configPath(domain)},
              !.available = Del(@, configPath(domain))]

\* save: the JSON file holds the hosts of the map
save(w) == [w EXCEPT !.hostsFile = {w.hosts[i] : i \in DOMAIN w.hosts}]

\* Create without its loop over m.hosts: no domain is ever found taken.
DomainExistsSkipped(hs, domain) == FALSE

\* Create's loop over m.hosts looking for the domain
DomainExists(hs, domain) == \E i \in DOMAIN hs : hs[i].Domain = domain

\* Create's checks before it draws an id: "" when they all pass
CreateCheck(hs, host) ==
    IF validateDomain(host.Domain) # "" THEN validateDomain(host.Domain)
    ELSE IF Len(host.Backends) = 0 /\ validateTarget(host.Target) # ""
         THEN validateTarget(host.Target)
    ELSE IF DomainExists(hs, host.Domain) THEN "domain already exists"
    ELSE ""

\* Create's id and timestamps
CreateStamp(w, host, now) ==
    [host EXCEPT !.ID = IdStr(w.nextId), !.CreatedAt = now, !.UpdatedAt = now]

\* Create's insertion under the write lock
CreateAdd(w, host) == [w EXCEPT !.hosts = Put(@, host.ID, host)]

\* ProxyHostManager.Create: [w, err, id]
Create(w, host, now) ==
    LET err == CreateCheck(w.hosts, host) IN
    IF err # "" THEN [w |-> w, err |-> err, id |-> ""]
    ELSE LET h == CreateStamp(w, host, now)
             w1 == writeNginxConfig([w EXCEPT !.nextId = @ + 1], h)
         IN [w |-> save(CreateAdd(w1, h)), err |-> "", id |-> h.ID]

\* Update's loop looking for another host with the new domain
UpdateConflict(hs, id, domain) ==
    /\ domain # hs[id].Domain
    /\ \E i \in DOMAIN hs : i # id /\ hs[i].Domain = domain

\* Update's checks under the write lock
UpdateCheck(hs, id, updates) ==
    IF id \notin DOMAIN hs THEN "proxy host not found"
    ELSE IF UpdateConflict(hs, id, updates.Domain) THEN "domain already exists"
    ELSE ""

\* Update's field assignments: every field but ID and CreatedAt
UpdateFields(host, updates, now) ==
    [host EXCEPT !.Domain = updates.Domain,
                 !.Target = updates.Target,
                 !.Backends = updates.Backends,
                 !.LBMethod = updates.LBMethod,
                 !.SSL = updates.SSL,
                 !.ForceSSL = updates.ForceSSL,
                 !.Enabled = updates.Enabled,
                 !.Maintenance = updates.Maintenance,
                 !.WebSocket = updates.WebSocket,
                 !.CustomNginx = updates.CustomNginx,
                 !.CertificateID = updates.CertificateID,
                 !.CertPath = updates.CertPath,
                 !.KeyPath = updates.KeyPath,
                 !.Tags = updates.Tags,
                 !.UpdatedAt = now]

\* Update's part after the lock is released: the old fragment goes when the
\* domain changed, the new one is written, the store is saved.
UpdateWriteFiles(w, id, oldDomain) ==
    LET host == w.hosts[id]
        w1 == IF oldDomain # host.Domain THEN removeNginxConfig(w, oldDomain) ELSE w
    IN writeNginxConfig(w1, host)

UpdateFiles(w, id, oldDomain) == save(UpdateWriteFiles(w, id, oldDomain))

\* ProxyHostManager.Update: [w, err]
Update(w, id, updates, now) ==
    LET err == UpdateCheck(w.hosts, id, updates) IN
    IF err # "" THEN [w |-> w, err |-> err]
    ELSE LET oldDomain == w.hosts[id].Domain
             w1 == [w EXCEPT !.hosts[id] = UpdateFields(@, updates, now)]
         IN [w |-> UpdateFiles(w1, id, oldDomain), err |-> ""]

\* ProxyHostManager.Delete: [w, err]
Delete(w, id) ==
    IF id \notin DOMAIN w.hosts THEN [w |-> w, err |-> "proxy host not found"]
    ELSE LET domain == w.hosts[id].Domain
             w1 == [w EXCEPT !.hosts = Del(@, id)]
         IN [w |-> save(removeNginxConfig(w1, domain)), err |-> ""]

\* ProxyHostManager.Toggle: [w, err]
Toggle(w, id, en, now) ==
    IF id \notin DOMAIN w.hosts THEN [w |-> w, err |-> "proxy host not found"]
    ELSE LET w1 == [w EXCEPT !.hosts[id].Enabled = en, !.hosts[id].UpdatedAt = now]
         IN [w |-> save(updateSymlink(w1, w1.hosts[id])), err |-> ""]

\* ProxyHostManager.SetMaintenance: [w, err]
SetMaintenance(w, id, m, now) ==
    IF id \notin DOMAIN w.hosts THEN [w |-> w, err |-> "proxy host not found"]
    ELSE LET w1 == [w EXCEPT !.hosts[id].Maintenance = m, !.hosts[id].UpdatedAt = now]
         IN [w |-> save(writeNginxConfig(w1, w1.hosts[id])), err |-> ""]

\* The elements of a slice.
Range(seq) == {seq[i] : i \in 1..Len(seq)}

\* ApplyCertificate's field assignments
ApplyCertificateFields(host, certID, certPath, keyPath, now) ==
    [host EXCEPT !.CertificateID = certID, !.CertPath = certPath, !.KeyPath = keyPath,
                 !.SSL = TRUE, !.UpdatedAt = now]

\* AddTag's append
AddTagFields(host, tagID, now) ==
    [host EXCEPT !.Tags = Append(@, tagID), !.UpdatedAt = now]

\* RemoveTag's filtered copy
RemoveTagFields(host, tagID, now) ==
    [host EXCEPT !.Tags = SelectSeq(@, LAMBDA t : t # tagID), !.UpdatedAt = now]

\* ------------------------------------------------------------ JSON, hosts

\* The zero nginx.ProxyHost (time.Time{} is far in the past).
TimeZero == 0 - 17700000
ZeroHost ==
    [ ID |-> "", Domain |-> <<>>, Target |-> <<>>, Backends |-> <<>>, LBMethod |-> "",
      SSL |-> FALSE, ForceSSL |-> FALSE, CertificateID |-> "", CertPath |-> <<>>,
      KeyPath |-> <<>>, Enabled |-> FALSE, Maintenance |-> FALSE, WebSocket |-> FALSE,
      CustomNginx |-> "", Tags |-> <<>>, CreatedAt |-> TimeZero, UpdatedAt |-> TimeZero ]

\* json.Marshal of a ProxyHost: the object its struct tags name.
HostToJSON(h) ==
    [ id |-> h.ID, domain |-> h.Domain, target |-> h.Target, backends |-> h.Backends,
      lbMethod |-> h.LBMethod, ssl |-> h.SSL, forceSSL |-> h.ForceSSL,
      certificateId |-> h.CertificateID, certPath |-> h.CertPath, keyPath |-> h.KeyPath,
      enabled |-> h.Enabled, maintenance |-> h.Maintenance, websocket |-> h.WebSocket,
      customNginx |-> h.CustomNginx, tags |-> h.Tags,
      createdAt |-> h.CreatedAt, updatedAt |-> h.UpdatedAt ]

\* json.Unmarshal into a ProxyHost.
HostFromJSON(j) ==
    [ ID |-> j.id, Domain |-> j.domain, Target |-> j.target, Backends |-> j.backends,
      LBMethod |-> j.lbMethod, SSL |-> j.ssl, ForceSSL |-> j.forceSSL,
      CertificateID |-> j.certificateId, CertPath |-> j.certPath, KeyPath |-> j.keyPath,
      Enabled |-> j.enabled, Maintenance |-> j.maintenance, WebSocket |-> j.websocket,
      CustomNginx |-> j.customNginx, Tags |-> j.tags,
      CreatedAt |-> j.createdAt, UpdatedAt |-> j.updatedAt ]

\* handleCreateHost and handleUpdateHost: the ProxyHost built from a
\* CreateHostRequest; the fields the request lacks stay zero.
HostOfRequest(req) ==
    [ZeroHost EXCEPT !.Domain = req.Domain, !.Target = req.Target,
                     !.Backends = req.Backends, !.LBMethod = req.LBMethod,
                     !.SSL = req.SSL, !.ForceSSL = req.ForceSSL,
                     !.Enabled = req.Enabled, !.Maintenance = req.Maintenance,
                     !.WebSocket = req.WebSocket, !.CustomNginx = req.CustomNginx,
                     !.Tags = req.Tags]

\* handleImportHosts: the ProxyHost it builds from an incoming host, for
\* Update and for Create alike.
HostOfImport(host) ==
    [ZeroHost EXCEPT !.Domain = host.Domain, !.Target = host.Target,
                     !.Backends = host.Backends, !.LBMethod = host.LBMethod,
                     !.SSL = host.SSL, !.ForceSSL = host.ForceSSL,
                     !.Enabled = host.Enabled, !.Maintenance = host.Maintenance,
                     !.WebSocket = host.WebSocket, !.CustomNginx = host.CustomNginx]

\* handleExportHosts: the "hosts" array of the response, List() visiting the
\* map in the given order.
handleExportHosts(hs, order) == [i \in 1..Len(order) |-> HostToJSON(hs[order[i]])]

\* An import that passes over an existing domain without counting it.
ImportSkippedUncounted(acc) == acc

\* handleImportHosts on an existing domain with overwrite off: skipped++
ImportSkipped(acc) == [acc EXCEPT !.skipped = @ + 1]

\* handleImportHosts' loop over req.Hosts: [w, imported, skipped, errors].
\* The first host List() returns with the incoming domain is the existing one.
RECURSIVE ImportLoop(_, _, _, _, _)
ImportLoop(acc, batch, i, overwrite, now) ==
    IF i > Len(batch) THEN acc
    ELSE LET host == HostFromJSON(batch[i])
             w == acc.w
             same == {id \in DOMAIN w.hosts : w.hosts[id].Domain = host.Domain}
         IN IF same # {}
            THEN IF overwrite
                 THEN LET r == Update(w, CHOOSE id \in same : TRUE, HostOfImport(host), now)
                      IN ImportLoop([acc EXCEPT !.w = r.w,
                                                !.imported = IF r.err = "" THEN @ + 1 ELSE @,
                                                !.errors = IF r.err = "" THEN @ ELSE Append(@, r.err)],
                                    batch, i + 1, overwrite, now)
                 ELSE ImportLoop(ImportSkipped(acc), batch, i + 1, overwrite, now)
            ELSE LET r == Create(w, HostOfImport(host), now)
                 IN ImportLoop([acc EXCEPT !.w = r.w,
                                           !.imported = IF r.err = "" THEN @ + 1 ELSE @,
                                           !.errors = IF r.err = "" THEN @ ELSE Append(@, r.err)],
                               batch, i + 1, overwrite, now)

\* ----------------------------------------------------- certificates and tags

\* The zero nginx.Certificate and nginx.Tag.
ZeroCert ==
    [ ID |-> "", Name |-> "", Domains |-> <<>>, CertPath |-> <<>>, KeyPath |-> <<>>,
      ChainPath |-> <<>>, Type |-> "", ExpiresAt |-> TimeZero, AutoRenew |-> FALSE,
      Tags |-> <<>>, CreatedAt |-> TimeZero, UpdatedAt |-> TimeZero ]

ZeroTag == [ID |-> "", Name |-> "", Color |-> "", CreatedAt |-> TimeZero]

\* CertificateManager.CreateCertificate with the n-th uuid: [certs, cert]
CreateCertificate(cs, n, cert, now) ==
    LET id == CertIdStr(n)
        c == [cert EXCEPT !.ID = id, !.CreatedAt = now, !.UpdatedAt = now,
                          !.CertPath = <<id, ".crt">>, !.KeyPath = <<id, ".key">>]
    IN [certs |-> Put(cs, id, c), cert |-> c]

\* CertificateManager.UpdateCertificate: [certs, err]
UpdateCertificate(cs, id, updates, now) ==
    IF id \notin DOMAIN cs THEN [certs |-> cs, err |-> "certificate not found"]
    ELSE [certs |-> [cs EXCEPT ![id] = [@ EXCEPT !.Name = updates.Name,
                                                 !.Domains = updates.Domains,
                                                 !.Tags = updates.Tags,
                                                 !.AutoRenew = updates.AutoRenew,
                                                 !.UpdatedAt = now]],
          err |-> ""]

\* CertificateManager.DeleteCertificate: [certs, err]
DeleteCertificate(cs, id) ==
    IF id \notin DOMAIN cs THEN [certs |-> cs, err |-> "certificate not found"]
    ELSE [certs |-> Del(cs, id), err |-> ""]

\* CertificateManager.CreateTag with the n-th uuid
CreateTag(ts, n, tag, now) ==
    Put(ts, TagIdStr(n), [tag EXCEPT !.ID = TagIdStr(n), !.CreatedAt = now])

\* CertificateManager.UpdateTag: [tags, err]
UpdateTag(ts, id, updates) ==
    IF id \notin DOMAIN ts THEN [tags |-> ts, err |-> "tag not found"]
    ELSE [tags |-> [ts EXCEPT ![id] = [@ EXCEPT !.Name = updates.Name, !.Color = updates.Color]],
          err |-> ""]

\* CertificateManager.DeleteTag: [tags, err]
DeleteTag(ts, id) ==
    IF id \notin DOMAIN ts THEN [tags |-> ts, err |-> "tag not found"]
    ELSE [tags |-> Del(ts, id), err |-> ""]

\* CertificateManager.GetCertificatePaths: [certPath, keyPath, err]
GetCertificatePaths(cs, id) ==
    IF id \notin DOMAIN cs
    THEN [certPath |-> <<>>, keyPath |-> <<>>, err |-> "certificate not found"]
    ELSE [certPath |-> cs[id].CertPath, keyPath |-> cs[id].KeyPath, err |-> ""]

\* LetsEncryptManager.IssueCertificate: the entry it hands to CreateCertificate
IssuedCert(domains, now) ==
    [ZeroCert EXCEPT !.Name = domains[1], !.Domains = domains, !.Type = "letsencrypt",
                     !.ExpiresAt = now + IssueValidityDays * HoursPerDay,
                     !.AutoRenew = TRUE]

\* LetsEncryptManager.RenewCertificate with the n-th uuid: [certs, err].
\* IssueCertificate stores what it obtained through CreateCertificate, and
\* the entry renewed takes over the new entry's paths and expiry.
RenewCertificate(cs, n, certID, obtained, now) ==
    IF certID \notin DOMAIN cs THEN [certs |-> cs, err |-> "certificate not found"]
    ELSE IF cs[certID].Type # "letsencrypt"
    THEN [certs |-> cs, err |-> "certificate is not a Let's Encrypt certificate"]
    ELSE IF ~obtained THEN [certs |-> cs, err |-> "failed to renew certificate"]
    ELSE LET issued == CreateCertificate(cs, n, IssuedCert(cs[certID].Domains, now), now)
         IN [certs |-> [issued.certs EXCEPT ![certID] =
                           [@ EXCEPT !.CertPath = issued.cert.CertPath,
                                     !.KeyPath = issued.cert.KeyPath,
                                     !.ExpiresAt = issued.cert.ExpiresAt,
                                     !.UpdatedAt = now]],
             err |-> ""]

\* handleUploadCertificate: the entry it hands to CreateCertificate
UploadedCert(name, domains, notAfter) ==
    [ZeroCert EXCEPT !.Name = name, !.Domains = domains, !.Type = "uploaded",
                     !.ExpiresAt = notAfter, !.AutoRenew = FALSE]

\* int(x / d) of Go: the quotient rounded toward zero
TruncDiv(x, d) == IF x >= 0 THEN x \div d ELSE 0 - ((0 - x) \div d)

\* handleCheckAutoRenew: daysUntilExpiry
daysUntilExpiry(cert, now) == TruncDiv(cert.ExpiresAt - now, HoursPerDay)

\* handleCheckAutoRenew with the threshold counted in: a day too many.
ScanIncludesInclusive(cert, now) ==
    /\ ~(~cert.AutoRenew \/ cert.Type # "letsencrypt")
    /\ daysUntilExpiry(cert, now) <= RenewThresholdDays

\* handleCheckAutoRenew: whether the loop appends the certificate
ScanIncludes(cert, now) ==
    /\ ~(~cert.AutoRenew \/ cert.Type # "letsencrypt")
    /\ daysUntilExpiry(cert, now) < RenewThresholdDays

\* handleCheckAutoRenew: the needsRenewal array, ListCertificates visiting the
\* map in the given order
handleCheckAutoRenew(cs, order, now) ==
    LET kept == SelectSeq(order, LAMBDA id : ScanIncludes(cs[id], now))
    IN [i \in 1..Len(kept) |->
          [ id |-> kept[i], name |-> cs[kept[i]].Name, domains |-> cs[kept[i]].Domains,
            expiresAt |-> cs[kept[i]].ExpiresAt,
            daysUntilExpiry |-> daysUntilExpiry(cs[kept[i]], now) ]]

\* ---------------------------------------------------------- default route

\* The zero DefaultRouteConfig.
ZeroRoute ==
    [ Enabled |-> FALSE, Mode |-> "", Target |-> <<>>, RedirectURL |-> <<>>,
      ErrorCode |-> 0, CustomHTML |-> <<>>, ErrorPages |-> <<>> ]

\* json.MarshalIndent of a DefaultRouteConfig.
RouteToJSON(c) ==
    [ enabled |-> c.Enabled, mode |-> c.Mode, target |-> c.Target,
      redirectUrl |-> c.RedirectURL, errorCode |-> c.ErrorCode,
      customHtml |-> c.CustomHTML, errorPages |-> c.ErrorPages ]

\* json.Unmarshal into a DefaultRouteConfig: the file names every key, so
\* every field of the receiver is overwritten.
RouteFromJSON(j) ==
    [ Enabled |-> j.enabled, Mode |-> j.mode, Target |-> j.target,
      RedirectURL |-> j.redirectUrl, ErrorCode |-> j.errorCode,
      CustomHTML |-> j.customHtml, ErrorPages |-> j.errorPages ]

\* defaultServerTemplate executed on a config.
defaultServerTemplate(c) ==
    [ root       |-> IF c.Mode = "nginx_default" THEN "/var/www/html" ELSE "/var/lib/nubi/html",
      errorPages |-> [i \in 1..Len(c.ErrorPages) |-> c.ErrorPages[i].Code],
      location   |-> IF c.Mode = "redirect" THEN <<"return 302 ">> \o c.RedirectURL
                     ELSE IF c.Mode = "proxy" THEN <<"proxy_pass ">> \o c.Target
                     ELSE IF c.Mode = "error_code" THEN <<"return ", ToString(c.ErrorCode)>>
                     ELSE IF c.Mode = "custom_page" THEN <<"try_files /nubi_default.html =404">>
                     ELSE <<"try_files $uri $uri/ =404">> ]

\* The default route's files, threaded through the manager's methods:
\*   state    default_route_state.json, <<>> when absent
\*   fragment sites-available/00-nubi-default, <<>> when absent
\*   link     the symlink in sites-enabled exists
\*   html     /var/lib/nubi/html: file name -> body
\*   backup   maintenance_backup_state.json, <<>> when absent

\* Apply's loop writing the error pages that carry a body.
RECURSIVE WriteErrorPages(_, _, _)
WriteErrorPages(html, eps, i) ==
    IF i > Len(eps) THEN html
    ELSE WriteErrorPages(
             IF eps[i].CustomHTML # <<>>
             THEN Put(html, <<"nubi_error_", ToString(eps[i].Code), ".html">>, eps[i].CustomHTML)
             ELSE html,
             eps, i + 1)

\* DefaultRouteManager.Disable
Disable(r) == [r EXCEPT !.link = FALSE, !.fragment = <<>>, !.state = <<>>]

\* Apply's write of nubi_default.html
WriteCustomPage(html, config) ==
    IF config.Mode = "custom_page" /\ config.CustomHTML # <<>>
    THEN Put(html, <<"nubi_default.html">>, config.CustomHTML)
    ELSE html

\* DefaultRouteManager.Apply
Apply(r, config) ==
    IF ~config.Enabled THEN Disable(r)
    ELSE [r EXCEPT !.html = WriteErrorPages(WriteCustomPage(@, config), config.ErrorPages, 1),
                   !.fragment = <<defaultServerTemplate(config)>>,
                   !.link = TRUE,
                   !.state = <<RouteToJSON(config)>>]

\* DefaultRouteManager.GetConfig
GetConfig(r) ==
    LET config == [ZeroRoute EXCEPT !.Enabled = FALSE, !.Mode = "nginx_default"] IN
    IF r.state = <<>> THEN config
    ELSE LET read == RouteFromJSON(r.state[1]) IN
         IF ~r.link THEN [read EXCEPT !.Enabled = FALSE] ELSE read

\* ApplyMaintenance's backup of the current config
BackupCurrent(r) ==
    IF GetConfig(r).Enabled
    THEN [r EXCEPT !.backup = <<RouteToJSON(GetConfig(r))>>]
    ELSE r

\* DefaultRouteManager.ApplyMaintenance
ApplyMaintenance(r, html) ==
    Apply(BackupCurrent(r),
          [ZeroRoute EXCEPT !.Enabled = TRUE, !.Mode = "custom_page", !.CustomHTML = html])

\* DefaultRouteManager.DisableMaintenance
DisableMaintenance(r) ==
    IF r.backup = <<>> THEN Disable(r)
    ELSE Apply([r EXCEPT !.backup = <<>>], RouteFromJSON(r.backup[1]))

\* escapeHTML
RECURSIVE escapeHTML(_)
escapeHTML(s) ==
    IF s = <<>> THEN <<>>
    ELSE (IF Head(s) = "<" THEN <<"&", "l", "t", ";">>
          ELSE IF Head(s) = ">" THEN <<"&", "g", "t", ";">>
          ELSE IF Head(s) = "&" THEN <<"&", "a", "m", "p", ";">>
          ELSE IF Head(s) = "\"" THEN <<"&", "q", "u", "o", "t", ";">>
          ELSE IF Head(s) = "'" THEN <<"&", "#", "3", "9", ";">>
          ELSE <<Head(s)>>) \o escapeHTML(Tail(s))

\* handleSetMaintenance's page: the fixed markup around the escaped message,
\* or around the stock sentence when the message is empty.
maintenanceHTML(message) ==
    IF message = <<>>
    THEN <<"<h1>Under Maintenance</h1><p>",
           "The server is currently undergoing maintenance.", "</p>">>
    ELSE <<"<h1>Under Maintenance</h1><p>">> \o escapeHTML(message) \o <<"</p>">>

\* What a request no host matches is answered with, read off the files the
\* way nginx serves them.
ServedPage(r) ==
    IF ~r.link \/ r.fragment = <<>> THEN <<"no default server">>
    ELSE IF r.fragment[1].location = <<"try_files /nubi_default.html =404">>
         THEN IF <<"nubi_default.html">> \in DOMAIN r.html
              THEN <<"200">> \o r.html[<<"nubi_default.html">>]
              ELSE <<"404">>
    ELSE r.fragment[1].location

\* ------------------------------------------------------- the nginx binary

\* A custom directive block nginx rejects (scenario S2's literal).
BadDirective == "this is not nginx syntax ;;;"

\* What `nginx -t` says of one host fragment.  nginx is external: the model
\* takes it to reject exactly the fragments that carry BadDirective.
NginxAccepts(fragment) == fragment.custom # BadDirective

\* Controller.CheckConfig on the tree: every symlink in sites-enabled
\* resolves and names a fragment nginx accepts.
CheckConfig(w, r) ==
    /\ \A f \in w.enabled : f \in DOMAIN w.available /\ NginxAccepts(w.available[f])
    /\ r.link => r.fragment # <<>>

\* Controller.Reload: `nginx -s reload` parses the tree before it signals the
\* master, which must be running (up).
Reload(w, r, up) == up /\ CheckConfig(w, r)

\* ------------------------------------------------------------------ state

VARIABLES
    hosts,              \* ProxyHostManager.hosts: id -> host
    hostsFile,          \* proxy_hosts.json: the hosts last saved
    available,          \* sites-available: file name -> host fragment
    enabled,            \* sites-enabled: file names with a symlink
    nextId,             \* number of the next host uuid
    hostsMu,            \* ProxyHostManager.mu: "free", "locked" by a writer, or "stuck"
                        \* once a handler's writer waits on itself
    treeChecked,        \* last `nginx -t` of the tree: "ok", "bad", or "stale" since a write
    clock,              \* time.Now(), in hours since the daemon started
    last,               \* the request served last and its response
    certs,              \* CertificateManager.certs: id -> certificate
    tags,               \* CertificateManager.tags: id -> tag
    nextCert,           \* number of the next certificate uuid
    nextTag,            \* number of the next tag uuid
    needsRenewal,       \* the needsRenewal array of the last renewal scan
    drState,            \* default_route_state.json: <<>> or <<config>>
    drFragment,         \* sites-available/00-nubi-default: <<>> or <<fragment>>
    drLink,             \* sites-enabled/00-nubi-default exists
    htmlDir,            \* /var/lib/nubi/html: file name -> body
    backup,             \* maintenance_backup_state.json: <<>> or <<config>>
    maintenanceMode,    \* Server.maintenanceMode
    maintenanceMessage, \* Server.maintenanceMessage
    beforeMaint,        \* history: the default route when maintenance was last enabled
    hubSent,            \* the StatusMessage Hub.Run took from h.broadcast last: <<>> or <<msg>>
    hubClients,         \* Hub.clients: the registered connections
    hubRun,             \* Hub.Run's position: the message in hand, the clients still to visit
    conns,              \* per connection: its state, what was written to it, who writes to it
    tickerPc,           \* the status broadcaster's loop: "status" or "metrics" is sent next
    environ,            \* the process environment: CF_DNS_API_TOKEN, <<>> while unset
    certManager,        \* Server.certManager: "ready", or "nil" when its constructor failed
    pc,                 \* per goroutine: where its handler stands
    loc                 \* per goroutine: the handler's local variables

hostVars == <<hosts, hostsFile, available, enabled, nextId, hostsMu>>
certVars == <<certs, tags, nextCert, nextTag, needsRenewal>>
hubVars == <<hubSent, tickerPc, hubClients, hubRun, conns>>
routeVars == <<drState, drFragment, drLink, htmlDir, backup, maintenanceMode,
               maintenanceMessage, beforeMaint, hubVars, environ, certManager>>
procVars == <<pc, loc>>
vars == <<hostVars, treeChecked, clock, last, certVars, routeVars, procVars>>

\* The host store and its files as one value, and back.
HostsW ==
    [ hosts |-> hosts, hostsFile |-> hostsFile, available |-> available,
      enabled |-> enabled, nextId |-> nextId ]

SetHostsW(w) ==
    /\ hosts' = w.hosts
    /\ hostsFile' = w.hostsFile
    /\ available' = w.available
    /\ enabled' = w.enabled
    /\ nextId' = w.nextId

\* A response: the handler, its argument, the HTTP status, the error or
\* warning text, whether nginx was reloaded ("none", "ok", "failed") and what
\* was known of the tree when it was (treeChecked at that moment).
Resp(op, arg, code, err, reload, after) ==
    [ op |-> op, arg |-> arg, code |-> code, err |-> err, reload |-> reload, after |-> after,
      body |-> <<>> ]

\* A handler's `if err := s.nginx.Reload(...)`: the response with the reload
\* outcome, okCode on success and failCode with a warning otherwise.
RespReload(op, arg, w, r, up, okCode, failCode) ==
    IF Reload(w, r, up)
    THEN Resp(op, arg, okCode, "", "ok", "stale")
    ELSE Resp(op, arg, failCode, "nginx reload failed", "failed", "stale")


\* The default route's files as one value, and back.
RouteW ==
    [ state |-> drState, fragment |-> drFragment, link |-> drLink,
      html |-> htmlDir, backup |-> backup ]

SetRouteW(r) ==
    /\ drState' = r.state
    /\ drFragment' = r.fragment
    /\ drLink' = r.link
    /\ htmlDir' = r.html
    /\ backup' = r.backup

\* main: a fresh install has no state file, so the daemon applies the
\* nginx_default route before it serves.
StartupRoute ==
    Apply([state |-> <<>>, fragment |-> <<>>, link |-> FALSE, html |-> <<>>, backup |-> <<>>],
          [ZeroRoute EXCEPT !.Enabled = TRUE, !.Mode = "nginx_default"])

Procs == 1..MaxProcs

\* The connections a run may open.
SinkStr(n) == IF n = 1 THEN "s1" ELSE IF n = 2 THEN "s2" ELSE IF n = 3 THEN "s3" ELSE "s4"
Sinks == {SinkStr(n) : n \in 1..MaxSinks}

\* A connection nobody has opened yet.  state is "none", "open" (writes
\* succeed), "broken" (the peer is gone: writes and reads fail) or "closed"
\* (conn.Close() was called); log is what WriteJSON put on the wire; writing is
\* the set of goroutines inside WriteJSON; initPc and replyPc count the
\* messages sendInitialStatus still has to write (0: not running); reading says
\* that handleWSMessages is in its loop.
NoConn == [state |-> "none", log |-> <<>>, writing |-> {}, initPc |-> 0, replyPc |-> 0,
           reading |-> FALSE]

\* Hub.Run stands at its select: the loop over the clients is over.
HubReady(h) == h.msg = <<>>

\* Hub.Run takes msg from h.broadcast and starts its loop over h.clients; with
\* no client the loop is over at once.  seq counts the messages taken while a
\* client was registered.
HubAccept(h, clients, msg) ==
    IF clients = {} THEN h
    ELSE [msg |-> <<msg>>, todo |-> clients, seq |-> h.seq + 1]

\* Hub.Broadcast: the send on the unbuffered channel completes when Hub.Run
\* stands at its select.
Broadcast(msg) ==
    /\ HubReady(hubRun)
    /\ hubSent' = <<msg>>
    /\ hubRun' = HubAccept(hubRun, hubClients, msg)
    /\ UNCHANGED <<hubClients, conns>>

\* A goroutine's locals while it serves nothing.
IdleLoc == [host |-> ZeroHost, id |-> "", oldDomain |-> <<>>, snap |-> {},
            config |-> <<>>, provider |-> <<>>]

Init ==
    /\ hosts = <<>>
    /\ hostsFile = {}
    /\ available = <<>>
    /\ enabled = {}
    /\ nextId = 1
    /\ hostsMu = "free"
    /\ treeChecked = "stale"
    /\ clock = 0
    /\ last = Resp("start", "", 0, "", "none", "")
    /\ certs = <<>>
    /\ tags = <<>>
    /\ nextCert = 1
    /\ nextTag = 1
    /\ needsRenewal = <<>>
    /\ drState = StartupRoute.state
    /\ drFragment = StartupRoute.fragment
    /\ drLink = StartupRoute.link
    /\ htmlDir = StartupRoute.html
    /\ backup = StartupRoute.backup
    /\ maintenanceMode = FALSE
    /\ maintenanceMessage = <<>>
    /\ beforeMaint = <<>>
    /\ hubSent = <<>>
    /\ tickerPc = "status"
    /\ hubClients = {}
    /\ hubRun = [msg |-> <<>>, todo |-> {}, seq |-> 0]
    /\ conns = [c \in Sinks |-> NoConn]
    /\ environ = <<>>
    /\ certManager = "ready"
    /\ pc = [p \in Procs |-> "idle"]
    /\ loc = [p \in Procs |-> IdleLoc]

\* ----------------------------------------------------------- request inputs

DomAB == <<"a", ".", "b">>
DomCD == <<"c", ".", "d">>
TargetX == HttpScheme \o <<"x">>

\* A well-formed CreateHostRequest; the others vary it.
BaseReq ==
    [ Domain |-> DomAB, Target |-> TargetX, Backends |-> <<>>, LBMethod |-> "",
      SSL |-> FALSE, ForceSSL |-> FALSE, Enabled |-> TRUE, Maintenance |-> FALSE,
      WebSocket |-> FALSE, CustomNginx |-> "", Tags |-> <<>> ]

\* A disabled host carrying the first tag id.
TaggedReq == [BaseReq EXCEPT !.Domain = DomCD, !.Enabled = FALSE, !.Tags = <<"t1">>]

\* The request bodies the operator sends to the host endpoints.
HostReqs ==
    { BaseReq,
      [BaseReq EXCEPT !.CustomNginx = BadDirective],
      TaggedReq,
      [BaseReq EXCEPT !.Target = <<>>],
      [BaseReq EXCEPT !.Domain = <<"-", "a">>] }

\* The ids a request path may name: drawn already or not.
HostIds == {IdStr(n) : n \in 1..MaxIds}

\* An uploaded import file: two hosts in the shape of scenario S5.
ImportFile ==
    << HostToJSON(HostOfRequest(BaseReq)),
       HostToJSON(HostOfRequest([BaseReq EXCEPT !.Domain = DomCD])) >>

\* ------------------------------------------------- host handlers, one at a time

\* handleCreateHost
HandleCreateHost(req, up) ==
    /\ hostsMu = "free"
    /\ nextId <= MaxIds
    /\ LET host == HostOfRequest(req)
           res == Create(HostsW, host, clock)
       IN IF req.Domain = <<>>
          THEN /\ last' = Resp("create", "", 400, "domain is required", "none", "")
               /\ UNCHANGED <<hostVars, treeChecked>>
          ELSE IF req.Target = <<>> /\ Len(req.Backends) = 0
          THEN /\ last' = Resp("create", "", 400, "Either target or backends is required", "none", "")
               /\ UNCHANGED <<hostVars, treeChecked>>
          ELSE IF res.err # ""
          THEN /\ last' = Resp("create", "", 400, res.err, "none", "")
               /\ UNCHANGED <<hostVars, treeChecked>>
          ELSE /\ SetHostsW(res.w)
               /\ treeChecked' = "stale"
               /\ last' = IF host.Enabled
                          THEN RespReload("create", res.id, res.w, RouteW, up, 201, 200)
                          ELSE Resp("create", res.id, 201, "", "none", "")
               /\ UNCHANGED hostsMu
    /\ UNCHANGED <<clock, certVars, routeVars, procVars>>

\* handleUpdateHost
HandleUpdateHost(id, req, up) ==
    /\ hostsMu = "free"
    /\ LET res == Update(HostsW, id, HostOfRequest(req), clock)
       IN IF req.Domain = <<>>
          THEN /\ last' = Resp("update", id, 400, "domain is required", "none", "")
               /\ UNCHANGED <<hostVars, treeChecked>>
          ELSE IF res.err # ""
          THEN /\ last' = Resp("update", id, 400, res.err, "none", "")
               /\ UNCHANGED <<hostVars, treeChecked>>
          ELSE /\ SetHostsW(res.w)
               /\ treeChecked' = "stale"
               /\ last' = RespReload("update", id, res.w, RouteW, up, 200, 200)
               /\ UNCHANGED hostsMu
    /\ UNCHANGED <<clock, certVars, routeVars, procVars>>

\* handleDeleteHost
HandleDeleteHost(id, up) ==
    /\ hostsMu = "free"
    /\ LET res == Delete(HostsW, id)
       IN IF res.err # ""
          THEN /\ last' = Resp("delete", id, 404, res.err, "none", "")
               /\ UNCHANGED <<hostVars, treeChecked>>
          ELSE /\ SetHostsW(res.w)
               /\ treeChecked' = "stale"
               /\ last' = RespReload("delete", id, res.w, RouteW, up, 200, 200)
               /\ UNCHANGED hostsMu
    /\ UNCHANGED <<clock, certVars, routeVars, procVars>>

\* handleToggleHost
HandleToggleHost(id, en, up) ==
    /\ hostsMu = "free"
    /\ LET res == Toggle(HostsW, id, en, clock)
       IN IF res.err # ""
          THEN /\ last' = Resp("toggle", id, 400, res.err, "none", "")
               /\ UNCHANGED <<hostVars, treeChecked>>
          ELSE /\ SetHostsW(res.w)
               /\ treeChecked' = "stale"
               /\ last' = RespReload("toggle", id, res.w, RouteW, up, 200, 200)
               /\ UNCHANGED hostsMu
    /\ UNCHANGED <<clock, certVars, routeVars, procVars>>

\* handleToggleMaintenance
HandleToggleMaintenance(id, m, up) ==
    /\ hostsMu = "free"
    /\ LET res == SetMaintenance(HostsW, id, m, clock)
       IN IF res.err # ""
          THEN /\ last' = Resp("maintenance", id, 400, res.err, "none", "")
               /\ UNCHANGED <<hostVars, treeChecked>>
          ELSE /\ SetHostsW(res.w)
               /\ treeChecked' = "stale"
               /\ last' = RespReload("maintenance", id, res.w, RouteW, up, 200, 200)
               /\ UNCHANGED hostsMu
    /\ UNCHANGED <<clock, certVars, routeVars, procVars>>

\* handleExportHosts, answering with the hosts in some order of the map
HandleExportHosts(order) ==
    /\ hostsMu = "free"
    /\ last' = Resp("export", "", 200, "", "none", "")
    /\ UNCHANGED <<hostVars, treeChecked, clock, certVars, routeVars, procVars>>

\* handleImportHosts.  src tells where the operator took the batch from:
\* "file" for an uploaded file, "export" for the export of the current hosts.
\* The response keeps the request beside the counts of its body.
HandleImportHosts(batch, src, overwrite, up) ==
    /\ hostsMu = "free"
    /\ LET arg == IF src = "export"
                  THEN (IF overwrite THEN "export-overwrite" ELSE "export-keep")
                  ELSE (IF overwrite THEN "file-overwrite" ELSE "file-keep")
       IN \E res \in {ImportLoop([w |-> HostsW, imported |-> 0, skipped |-> 0, errors |-> <<>>],
                                  batch, 1, overwrite, clock)} :
          IF Len(batch) = 0
          THEN /\ last' = Resp("import", arg, 400, "No hosts to import", "none", "")
               /\ UNCHANGED <<hostVars, treeChecked>>
          ELSE /\ res.w.nextId <= MaxIds + 1
               /\ SetHostsW(res.w)
               /\ treeChecked' = IF res.imported > 0 THEN "stale" ELSE treeChecked
               /\ last' = [ (IF res.imported > 0
                              THEN RespReload("import", arg, res.w, RouteW, up, 200, 200)
                              ELSE Resp("import", arg, 200, "", "none", ""))
                             EXCEPT !.body = <<[ hosts |-> batch, overwrite |-> overwrite,
                                                 imported |-> res.imported,
                                                 skipped |-> res.skipped,
                                                 errors |-> res.errors ]>> ]
               /\ UNCHANGED hostsMu
    /\ UNCHANGED <<clock, certVars, routeVars, procVars>>

\* handleConfigTest
HandleConfigTest ==
    /\ treeChecked' = IF CheckConfig(HostsW, RouteW) THEN "ok" ELSE "bad"
    /\ last' = IF CheckConfig(HostsW, RouteW)
               THEN Resp("test", "", 200, "", "none", "")
               ELSE Resp("test", "", 502, "nginx command failed", "none", "")
    /\ UNCHANGED <<hostVars, clock, certVars, routeVars, procVars>>

\* handleReload
HandleReload(up) ==
    /\ last' = IF Reload(HostsW, RouteW, up)
               THEN Resp("reload", "", 200, "", "ok", treeChecked)
               ELSE Resp("reload", "", 502, "nginx command failed", "failed", treeChecked)
    /\ UNCHANGED <<hostVars, treeChecked, clock, certVars, routeVars, procVars>>

\* The host endpoints, served one request at a time.
Next ==
    \/ \E req \in HostReqs, up \in BOOLEAN : HandleCreateHost(req, up)
    \/ \E id \in HostIds, req \in HostReqs, up \in BOOLEAN : HandleUpdateHost(id, req, up)
    \/ \E id \in HostIds, up \in BOOLEAN : HandleDeleteHost(id, up)
    \/ \E id \in HostIds, en \in BOOLEAN, up \in BOOLEAN : HandleToggleHost(id, en, up)
    \/ \E id \in HostIds, m \in BOOLEAN, up \in BOOLEAN : HandleToggleMaintenance(id, m, up)
    \/ \E order \in Orders(DOMAIN hosts) : HandleExportHosts(order)
    \/ \E overwrite \in BOOLEAN, up \in BOOLEAN : HandleImportHosts(ImportFile, "file", overwrite, up)
    \/ \E order \in Orders(DOMAIN hosts), overwrite \in BOOLEAN, up \in BOOLEAN :
           HandleImportHosts(handleExportHosts(hosts, order), "export", overwrite, up)
    \/ HandleConfigTest
    \/ \E up \in BOOLEAN : HandleReload(up)

Spec == Init /\ [][Next]_vars

\* The endpoints that call ProxyHostManager.Create, Update and Delete, served
\* one request at a time.
NextStore ==
    \/ \E req \in HostReqs, up \in BOOLEAN : HandleCreateHost(req, up)
    \/ \E id \in HostIds, req \in HostReqs, up \in BOOLEAN : HandleUpdateHost(id, req, up)
    \/ \E id \in HostIds, up \in BOOLEAN : HandleDeleteHost(id, up)
    \/ \E overwrite \in BOOLEAN, up \in BOOLEAN : HandleImportHosts(ImportFile, "file", overwrite, up)
    \/ \E order \in Orders(DOMAIN hosts), overwrite \in BOOLEAN, up \in BOOLEAN :
           HandleImportHosts(handleExportHosts(hosts, order), "export", overwrite, up)

SpecStore == Init /\ [][NextStore]_vars

\* ------------------------------------- host handlers, one goroutine per request

\* The requests the concurrent clients send.
ConcReqs == {BaseReq, [BaseReq EXCEPT !.Domain = DomCD, !.Enabled = FALSE]}

\* Goroutines inside Create that have not drawn their id yet.
AwaitingId == {p \in Procs : pc[p] = "create:checked"}

\* handleCreateHost up to Create's duplicate check under the read lock
CreateBegin(p, req) ==
    /\ pc[p] = "idle"
    /\ hostsMu = "free"
    /\ nextId + Cardinality(AwaitingId) <= MaxIds
    /\ LET host == HostOfRequest(req)
           err == IF req.Target = <<>> /\ Len(req.Backends) = 0
                  THEN "Either target or backends is required"
                  ELSE CreateCheck(hosts, host)
       IN IF err # ""
          THEN /\ last' = Resp("create", "", 400, err, "none", "")
               /\ UNCHANGED procVars
          ELSE /\ pc' = [pc EXCEPT ![p] = "create:checked"]
               /\ loc' = [loc EXCEPT ![p] = [IdleLoc EXCEPT !.host = host]]
               /\ last' = Resp("create:check", "", 0, "", "none", "")
    /\ UNCHANGED <<hostVars, treeChecked, clock, certVars, routeVars>>

\* Create: the uuid, the timestamps and writeNginxConfig
CreateWrite(p) ==
    /\ pc[p] = "create:checked"
    /\ LET h == CreateStamp(HostsW, loc[p].host, clock)
       IN /\ SetHostsW(writeNginxConfig([HostsW EXCEPT !.nextId = @ + 1], h))
          /\ loc' = [loc EXCEPT ![p].host = h, ![p].id = h.ID]
    /\ pc' = [pc EXCEPT ![p] = "create:written"]
    /\ treeChecked' = "stale"
    /\ last' = Resp("create:write", loc'[p].id, 0, "", "none", "")
    /\ UNCHANGED <<hostsMu, clock, certVars, routeVars>>

\* Create: m.hosts[host.ID] = host under the write lock
CreateInsert(p) ==
    /\ pc[p] = "create:written"
    /\ hostsMu = "free"
    /\ SetHostsW(CreateAdd(HostsW, loc[p].host))
    /\ pc' = [pc EXCEPT ![p] = "create:added"]
    /\ last' = Resp("create:add", loc[p].id, 0, "", "none", "")
    /\ UNCHANGED <<hostsMu, loc, treeChecked, clock, certVars, routeVars>>

\* Create: return m.save()
CreateSave(p) ==
    /\ pc[p] = "create:added"
    /\ hostsMu = "free"
    /\ SetHostsW(save(HostsW))
    /\ pc' = [pc EXCEPT ![p] = "create:saved"]
    /\ last' = Resp("create:save", loc[p].id, 0, "", "none", "")
    /\ UNCHANGED <<hostsMu, loc, treeChecked, clock, certVars, routeVars>>

\* handleCreateHost after Create: the reload and the response
CreateRespond(p, up) ==
    /\ pc[p] = "create:saved"
    /\ last' = IF loc[p].host.Enabled
               THEN RespReload("create", loc[p].id, HostsW, RouteW, up, 201, 200)
               ELSE Resp("create", loc[p].id, 201, "", "none", "")
    /\ pc' = [pc EXCEPT ![p] = "idle"]
    /\ loc' = [loc EXCEPT ![p] = IdleLoc]
    /\ UNCHANGED <<hostVars, treeChecked, clock, certVars, routeVars>>

\* handleUpdateHost up to Update's unlock: the checks and the field assignments
UpdateBegin(p, id, req) ==
    /\ pc[p] = "idle"
    /\ hostsMu = "free"
    /\ LET updates == HostOfRequest(req)
           err == UpdateCheck(hosts, id, updates)
       IN IF err # ""
          THEN /\ last' = Resp("update", "", 400, err, "none", "")
               /\ UNCHANGED <<hosts, procVars>>
          ELSE /\ hosts' = [hosts EXCEPT ![id] = UpdateFields(@, updates, clock)]
               /\ pc' = [pc EXCEPT ![p] = "update:assigned"]
               /\ loc' = [loc EXCEPT ![p] = [IdleLoc EXCEPT !.id = id,
                                                            !.oldDomain = hosts[id].Domain]]
               /\ last' = Resp("update:assign", id, 0, "", "none", "")
    /\ UNCHANGED <<hostsFile, available, enabled, nextId, hostsMu, treeChecked, clock,
                   certVars, routeVars>>

\* Update: removeNginxConfig of the old domain and writeNginxConfig of the host
UpdateWrite(p) ==
    /\ pc[p] = "update:assigned"
    /\ SetHostsW(UpdateWriteFiles(HostsW, loc[p].id, loc[p].oldDomain))
    /\ pc' = [pc EXCEPT ![p] = "update:written"]
    /\ treeChecked' = "stale"
    /\ last' = Resp("update:write", loc[p].id, 0, "", "none", "")
    /\ UNCHANGED <<hostsMu, loc, clock, certVars, routeVars>>

\* Update: return m.save()
UpdateSave(p) ==
    /\ pc[p] = "update:written"
    /\ hostsMu = "free"
    /\ SetHostsW(save(HostsW))
    /\ pc' = [pc EXCEPT ![p] = "update:saved"]
    /\ last' = Resp("update:save", loc[p].id, 0, "", "none", "")
    /\ UNCHANGED <<hostsMu, loc, treeChecked, clock, certVars, routeVars>>

\* handleUpdateHost after Update: the reload and the response
UpdateRespond(p, up) ==
    /\ pc[p] = "update:saved"
    /\ last' = RespReload("update", loc[p].id, HostsW, RouteW, up, 200, 200)
    /\ pc' = [pc EXCEPT ![p] = "idle"]
    /\ loc' = [loc EXCEPT ![p] = IdleLoc]
    /\ UNCHANGED <<hostVars, treeChecked, clock, certVars, routeVars>>

\* Create and update requests served by concurrent goroutines.
NextConc ==
    \/ \E p \in Procs, req \in ConcReqs : CreateBegin(p, req)
    \/ \E p \in Procs : CreateWrite(p)
    \/ \E p \in Procs : CreateInsert(p)
    \/ \E p \in Procs : CreateSave(p)
    \/ \E p \in Procs, up \in BOOLEAN : CreateRespond(p, up)
    \/ \E p \in Procs, id \in HostIds, req \in ConcReqs : UpdateBegin(p, id, req)
    \/ \E p \in Procs : UpdateWrite(p)
    \/ \E p \in Procs : UpdateSave(p)
    \/ \E p \in Procs, up \in BOOLEAN : UpdateRespond(p, up)

SpecConc == Init /\ [][NextConc]_vars

\* save, first half: under the read lock the hosts slice is filled with the
\* pointers the map holds (snap: the ids they belong to).
SaveCollect(p) ==
    /\ pc[p] \in {"create:added", "update:written"}
    /\ hostsMu = "free"
    /\ loc' = [loc EXCEPT ![p].snap = DOMAIN hosts]
    /\ pc' = [pc EXCEPT ![p] = IF pc[p] = "create:added" THEN "create:collected"
                                                          ELSE "update:collected"]
    /\ last' = Resp("save:collect", loc[p].id, 0, "", "none", "")
    /\ UNCHANGED <<hostVars, treeChecked, clock, certVars, routeVars>>

\* save, second half: with no lock held the slice is marshalled, each pointer
\* read as the host is by then, and the file is written.
SaveWriteFile(p) ==
    /\ pc[p] \in {"create:collected", "update:collected"}
    /\ hostsFile' = {hosts[i] : i \in loc[p].snap}
    /\ pc' = [pc EXCEPT ![p] = IF pc[p] = "create:collected" THEN "create:saved"
                                                              ELSE "update:saved"]
    /\ last' = Resp("save:write", loc[p].id, 0, "", "none", "")
    /\ UNCHANGED <<hosts, available, enabled, nextId, hostsMu, loc, treeChecked, clock,
                   certVars, routeVars>>

\* Create and update requests served by concurrent goroutines, save() taken
\* in its two halves.
NextSave ==
    \/ \E p \in Procs, req \in ConcReqs : CreateBegin(p, req)
    \/ \E p \in Procs : CreateWrite(p)
    \/ \E p \in Procs : CreateInsert(p)
    \/ \E p \in Procs : SaveCollect(p)
    \/ \E p \in Procs : SaveWriteFile(p)
    \/ \E p \in Procs, up \in BOOLEAN : CreateRespond(p, up)
    \/ \E p \in Procs, id \in HostIds, req \in ConcReqs : UpdateBegin(p, id, req)
    \/ \E p \in Procs : UpdateWrite(p)
    \/ \E p \in Procs, up \in BOOLEAN : UpdateRespond(p, up)

SpecSave == Init /\ [][NextSave]_vars

\* ------------------------------------------------ certificate and tag handlers

CertIds == {CertIdStr(n) : n \in 1..MaxCerts}
TagIds == {TagIdStr(n) : n \in 1..MaxTags}

\* The bodies PUT /api/certificates/:id receives.
CertUpdates ==
    { [ZeroCert EXCEPT !.Name = "site", !.Tags = tg, !.AutoRenew = ar] :
        tg \in {<<>>, <<"t1">>}, ar \in BOOLEAN }

\* The same bodies with the tags left empty.
RenewUpdates == {u \in CertUpdates : u.Tags = <<>>}

\* NotAfter of the certificates the operator uploads, in hours.
NotAfters == {700}

\* handleUploadCertificate
HandleUploadCertificate(name, notAfter) ==
    /\ nextCert <= MaxCerts
    /\ IF name = ""
       THEN /\ last' = Resp("upload", "", 400, "name is required", "none", "")
            /\ UNCHANGED <<certs, nextCert>>
       ELSE LET res == CreateCertificate(certs, nextCert, UploadedCert(name, <<"a.b">>, notAfter), clock)
            IN /\ certs' = res.certs
               /\ nextCert' = nextCert + 1
               /\ last' = Resp("upload", res.cert.ID, 201, "", "none", "")
    /\ needsRenewal' = <<>>
    /\ UNCHANGED <<hostVars, treeChecked, clock, tags, nextTag, routeVars, procVars>>

\* handleIssueLetsEncrypt; obtained tells whether the ACME exchange succeeded
HandleIssueLetsEncrypt(domains, autoRenew, obtained) ==
    /\ nextCert <= MaxCerts
    /\ IF ~obtained
       THEN /\ last' = Resp("issue", "", 500, "failed to obtain certificate", "none", "")
            /\ UNCHANGED <<certs, nextCert>>
       ELSE LET res == CreateCertificate(certs, nextCert, IssuedCert(domains, clock), clock)
            IN /\ certs' = res.certs
               /\ nextCert' = nextCert + 1
               /\ last' = [Resp("issue", res.cert.ID, 200, "", "none", "")
                             EXCEPT !.body = <<[req |-> [domains |-> domains,
                                                         autoRenew |-> autoRenew],
                                                certificate |-> res.cert]>>]
    /\ needsRenewal' = <<>>
    /\ UNCHANGED <<hostVars, treeChecked, clock, tags, nextTag, routeVars, procVars>>

\* handleUpdateCertificate
HandleUpdateCertificate(id, updates) ==
    /\ LET res == UpdateCertificate(certs, id, updates, clock)
       IN /\ certs' = res.certs
          /\ last' = IF res.err # ""
                     THEN Resp("cert-update", "", 500, res.err, "none", "")
                     ELSE Resp("cert-update", id, 200, "", "none", "")
    /\ needsRenewal' = <<>>
    /\ UNCHANGED <<hostVars, treeChecked, clock, tags, nextCert, nextTag, routeVars, procVars>>

\* handleDeleteCertificate
HandleDeleteCertificate(id) ==
    /\ LET res == DeleteCertificate(certs, id)
       IN /\ certs' = res.certs
          /\ last' = IF res.err # ""
                     THEN Resp("cert-delete", "", 500, res.err, "none", "")
                     ELSE Resp("cert-delete", id, 200, "", "none", "")
    /\ needsRenewal' = <<>>
    /\ UNCHANGED <<hostVars, treeChecked, clock, tags, nextCert, nextTag, routeVars, procVars>>

\* handleCreateTag
HandleCreateTag(name) ==
    /\ nextTag <= MaxTags
    /\ tags' = CreateTag(tags, nextTag, [ZeroTag EXCEPT !.Name = name], clock)
    /\ nextTag' = nextTag + 1
    /\ last' = Resp("tag-create", TagIdStr(nextTag), 201, "", "none", "")
    /\ needsRenewal' = <<>>
    /\ UNCHANGED <<hostVars, treeChecked, clock, certs, nextCert, routeVars, procVars>>

\* handleUpdateTag
HandleUpdateTag(id, updates) ==
    /\ LET res == UpdateTag(tags, id, updates)
       IN /\ tags' = res.tags
          /\ last' = IF res.err # ""
                     THEN Resp("tag-update", "", 500, res.err, "none", "")
                     ELSE Resp("tag-update", id, 200, "", "none", "")
    /\ needsRenewal' = <<>>
    /\ UNCHANGED <<hostVars, treeChecked, clock, certs, nextCert, nextTag, routeVars, procVars>>

\* handleDeleteTag
HandleDeleteTag(id) ==
    /\ LET res == DeleteTag(tags, id)
       IN /\ tags' = res.tags
          /\ last' = IF res.err # ""
                     THEN Resp("tag-delete", "", 500, res.err, "none", "")
                     ELSE Resp("tag-delete", id, 200, "", "none", "")
    /\ needsRenewal' = <<>>
    /\ UNCHANGED <<hostVars, treeChecked, clock, certs, nextCert, nextTag, routeVars, procVars>>

\* handleBulkApplyCertificate: the host ids it walks, the request's first and
\* then the hosts carrying the tag, List() visiting the map in the given order
BulkTargets(hs, hostIds, tagId, order) ==
    hostIds \o (IF tagId # ""
                THEN SelectSeq(order, LAMBDA i : tagId \in Range(hs[i].Tags))
                ELSE <<>>)

\* handleBulkApplyCertificate.  The response keeps the request beside
\* updatedHosts.  ApplyCertificate returns an error for an
\* unknown host; for a known one it assigns the fields and calls save() with
\* m.mu still write-locked, where its RLock waits for ever: the handler never
\* answers (code 0) and the lock is never released.
HandleBulkApplyCertificate(certId, hostIds, tagId, order) ==
    /\ hostsMu = "free"
    /\ LET paths == GetCertificatePaths(certs, certId)
           ids == BulkTargets(hosts, hostIds, tagId, order)
           known == {k \in 1..Len(ids) : ids[k] \in DOMAIN hosts}
           first == ids[CHOOSE k \in known : \A j \in known : k <= j]
           body == <<[req |-> [certificateId |-> certId, hostIds |-> hostIds, tagId |-> tagId],
                      updatedHosts |-> 0]>>
       IN IF paths.err # ""
          THEN /\ last' = Resp("bulk-apply", "", 404, paths.err, "none", "")
               /\ UNCHANGED <<hosts, hostsMu>>
          ELSE IF known = {}
          THEN /\ last' = [Resp("bulk-apply", "", 200, "", "none", "") EXCEPT !.body = body]
               /\ UNCHANGED <<hosts, hostsMu>>
          ELSE /\ hosts' = [hosts EXCEPT ![first] =
                              ApplyCertificateFields(@, certId, paths.certPath, paths.keyPath, clock)]
               /\ hostsMu' = "stuck"
               /\ last' = [Resp("bulk-apply", first, 0, "", "none", "") EXCEPT !.body = body]
    /\ needsRenewal' = <<>>
    /\ UNCHANGED <<hostsFile, available, enabled, nextId, treeChecked, clock, certs, tags,
                   nextCert, nextTag, routeVars, procVars>>

\* handleBulkTagHosts' loop: [hosts, stuck].  AddTag returns early for an
\* unknown host and for a tag the host has; otherwise AddTag and RemoveTag
\* assign and call save() with m.mu write-locked, as ApplyCertificate does.
RECURSIVE BulkTagLoop(_, _, _, _, _, _)
BulkTagLoop(hs, ids, i, tagID, action, now) ==
    IF i > Len(ids) THEN [hosts |-> hs, stuck |-> ""]
    ELSE IF ids[i] \notin DOMAIN hs THEN BulkTagLoop(hs, ids, i + 1, tagID, action, now)
    ELSE IF action = "add" /\ tagID \in Range(hs[ids[i]].Tags)
         THEN BulkTagLoop(hs, ids, i + 1, tagID, action, now)
    ELSE [hosts |-> [hs EXCEPT ![ids[i]] = IF action = "add"
                                           THEN AddTagFields(@, tagID, now)
                                           ELSE RemoveTagFields(@, tagID, now)],
          stuck |-> ids[i]]

\* handleBulkTagHosts' updatedHosts when its loop comes to an end: the calls
\* that returned nil, which are the additions of a tag the host has.
BulkTagUpdated(hs, ids, tagID, action) ==
    Cardinality({i \in 1..Len(ids) : /\ ids[i] \in DOMAIN hs
                                      /\ action = "add"
                                      /\ tagID \in Range(hs[ids[i]].Tags)})

\* handleBulkTagHosts.  The response keeps the request beside updatedHosts.
HandleBulkTagHosts(tagId, hostIds, action) ==
    /\ hostsMu = "free"
    /\ LET act == IF action = "" THEN "add" ELSE action
           res == BulkTagLoop(hosts, hostIds, 1, tagId, act, clock)
           req == [tagId |-> tagId, hostIds |-> hostIds, action |-> act]
       IN /\ hosts' = res.hosts
          /\ hostsMu' = IF res.stuck # "" THEN "stuck" ELSE hostsMu
          /\ last' = IF res.stuck # ""
                     THEN [Resp("bulk-tag", res.stuck, 0, "", "none", "")
                             EXCEPT !.body = <<[req |-> req, updatedHosts |-> 0]>>]
                     ELSE [Resp("bulk-tag", "", 200, "", "none", "")
                             EXCEPT !.body = <<[req |-> req, updatedHosts |->
                                                   BulkTagUpdated(hosts, hostIds, tagId, act)]>>]
    /\ needsRenewal' = <<>>
    /\ UNCHANGED <<hostsFile, available, enabled, nextId, treeChecked, clock, certs, tags,
                   nextCert, nextTag, routeVars, procVars>>

\* handleCheckAutoRenew
HandleCheckAutoRenew(order) ==
    /\ needsRenewal' = handleCheckAutoRenew(certs, order, clock)
    /\ last' = Resp("scan", "", 200, "", "none", "")
    /\ UNCHANGED <<hostVars, treeChecked, clock, certs, tags, nextCert, nextTag, routeVars, procVars>>

\* Hours passing between two requests.
TickSteps == {1440, 1441}

\* The wall clock advances.
Tick(d) ==
    /\ clock + d <= MaxClock
    /\ clock' = clock + d
    /\ last' = Resp("tick", "", 0, "", "none", "")
    /\ needsRenewal' = <<>>
    /\ UNCHANGED <<hostVars, treeChecked, certs, tags, nextCert, nextTag, routeVars, procVars>>

\* Hosts, certificates and tags, one request at a time.
NextCerts ==
    \/ \E req \in {BaseReq, TaggedReq}, up \in BOOLEAN : HandleCreateHost(req, up)
    \/ \E name \in {"", "site"}, notAfter \in NotAfters : HandleUploadCertificate(name, notAfter)
    \/ \E id \in CertIds, updates \in CertUpdates : HandleUpdateCertificate(id, updates)
    \/ \E id \in CertIds : HandleDeleteCertificate(id)
    \/ HandleCreateTag("web")
    \/ \E id \in TagIds : HandleDeleteTag(id)
    \/ \E certId \in CertIds, hostIds \in {<<>>, <<"h1">>}, tagId \in {"", "t1"},
          order \in Orders(DOMAIN hosts) :
           HandleBulkApplyCertificate(certId, hostIds, tagId, order)
    \/ \E action \in {"", "remove"} : HandleBulkTagHosts("t1", <<"h2", "h1">>, action)

SpecCerts == Init /\ [][NextCerts]_vars

\* The certificate store and the renewal scan as the clock advances.
NextRenew ==
    \/ \E autoRenew \in BOOLEAN, obtained \in BOOLEAN :
           HandleIssueLetsEncrypt(<<"a.b">>, autoRenew, obtained)
    \/ \E name \in {"", "site"}, notAfter \in NotAfters : HandleUploadCertificate(name, notAfter)
    \/ \E id \in CertIds, updates \in RenewUpdates : HandleUpdateCertificate(id, updates)
    \/ \E id \in CertIds : HandleDeleteCertificate(id)
    \/ \E order \in Orders(DOMAIN certs) : HandleCheckAutoRenew(order)
    \/ \E d \in TickSteps : Tick(d)

SpecRenew == Init /\ [][NextRenew]_vars

\* The bodies POST /api/tags and PUT /api/tags/:id receive.
TagReqs == {[ZeroTag EXCEPT !.Name = n, !.Color = c] : n \in {"web", "db"}, c \in {"", "#f00"}}

\* The tag endpoints, one request at a time, as the clock advances.
NextTags ==
    \/ \E req \in TagReqs : HandleCreateTag(req.Name)
    \/ \E id \in TagIds, req \in TagReqs : HandleUpdateTag(id, req)
    \/ \E id \in TagIds : HandleDeleteTag(id)
    \/ \E d \in TickSteps : Tick(d)

SpecTags == Init /\ [][NextTags]_vars

\* handleRenewLetsEncrypt; obtained tells whether the ACME exchange succeeded
HandleRenewLetsEncrypt(id, obtained) ==
    /\ nextCert <= MaxCerts
    /\ LET res == RenewCertificate(certs, nextCert, id, obtained, clock)
       IN /\ certs' = res.certs
          /\ nextCert' = IF res.err = "" THEN nextCert + 1 ELSE nextCert
          /\ last' = IF id \notin DOMAIN certs
                     THEN Resp("renew", id, 404, "certificate not found", "none", "")
                     ELSE IF res.err # ""
                     THEN Resp("renew", id, 500, res.err, "none", "")
                     ELSE Resp("renew", id, 200, "", "none", "")
    /\ needsRenewal' = <<>>
    /\ UNCHANGED <<hostVars, treeChecked, clock, tags, nextTag, routeVars, procVars>>

\* Issued and uploaded certificates, the hosts they are applied to and their
\* renewal as the clock advances.
NextAcme ==
    \/ \E up \in BOOLEAN : HandleCreateHost(BaseReq, up)
    \/ \E obtained \in BOOLEAN : HandleIssueLetsEncrypt(<<"a.b">>, TRUE, obtained)
    \/ \E notAfter \in NotAfters : HandleUploadCertificate("site", notAfter)
    \/ \E certId \in CertIds, order \in Orders(DOMAIN hosts) :
           HandleBulkApplyCertificate(certId, <<"h1">>, "", order)
    \/ \E id \in CertIds, obtained \in BOOLEAN : HandleRenewLetsEncrypt(id, obtained)
    \/ \E d \in TickSteps : Tick(d)

SpecAcme == Init /\ [][NextAcme]_vars

\* The bodies the host endpoints receive with the TLS switches set.
TlsReqs ==
    { BaseReq,
      [BaseReq EXCEPT !.SSL = TRUE, !.ForceSSL = TRUE],
      [BaseReq EXCEPT !.ForceSSL = TRUE],
      [BaseReq EXCEPT !.Domain = DomCD, !.SSL = TRUE] }

\* An uploaded import file whose host asks for the redirect without TLS.
TlsImportFile ==
    << HostToJSON(HostOfRequest([BaseReq EXCEPT !.Domain = DomCD, !.ForceSSL = TRUE])) >>

\* Hosts with their TLS switches, and the certificates applied to them.
NextTls ==
    \/ \E req \in TlsReqs, up \in BOOLEAN : HandleCreateHost(req, up)
    \/ \E id \in HostIds, req \in TlsReqs, up \in BOOLEAN : HandleUpdateHost(id, req, up)
    \/ \E overwrite \in BOOLEAN, up \in BOOLEAN :
           HandleImportHosts(TlsImportFile, "file", overwrite, up)
    \/ \E notAfter \in NotAfters : HandleUploadCertificate("site", notAfter)
    \/ \E certId \in CertIds, id \in HostIds, order \in Orders(DOMAIN hosts) :
           HandleBulkApplyCertificate(certId, <<id>>, "", order)

SpecTls == Init /\ [][NextTls]_vars

\* handleListHosts and handleGetHost arriving: the goroutine is about to take
\* the read lock in List or Get.
ReadCall(p, op, id) ==
    /\ pc[p] = "idle"
    /\ pc' = [pc EXCEPT ![p] = IF op = "list" THEN "list:called" ELSE "get:called"]
    /\ loc' = [loc EXCEPT ![p] = [IdleLoc EXCEPT !.id = id]]
    /\ last' = Resp(IF op = "list" THEN "list:call" ELSE "get:call", id, 0, "", "none", "")
    /\ UNCHANGED <<hostVars, treeChecked, clock, certVars, routeVars>>

\* List and Get: RLock is granted once no writer holds m.mu; the handler answers.
ReadReturn(p) ==
    /\ pc[p] \in {"list:called", "get:called"}
    /\ hostsMu = "free"
    /\ last' = IF pc[p] = "list:called" THEN Resp("list", "", 200, "", "none", "")
               ELSE IF loc[p].id \in DOMAIN hosts THEN Resp("get", loc[p].id, 200, "", "none", "")
               ELSE Resp("get", loc[p].id, 404, "proxy host not found", "none", "")
    /\ pc' = [pc EXCEPT ![p] = "idle"]
    /\ loc' = [loc EXCEPT ![p] = IdleLoc]
    /\ UNCHANGED <<hostVars, treeChecked, clock, certVars, routeVars>>

\* Readers of the host store beside the requests that create hosts, tag them
\* and apply certificates to them.
NextRead ==
    \/ \E req \in {BaseReq, TaggedReq}, up \in BOOLEAN : HandleCreateHost(req, up)
    \/ \E notAfter \in NotAfters : HandleUploadCertificate("site", notAfter)
    \/ \E certId \in CertIds, id \in HostIds, order \in Orders(DOMAIN hosts) :
           HandleBulkApplyCertificate(certId, <<id>>, "", order)
    \/ \E id \in HostIds, action \in {"", "remove"} : HandleBulkTagHosts("t1", <<id>>, action)
    \/ \E p \in Procs : ReadCall(p, "list", "")
    \/ \E p \in Procs, id \in HostIds : ReadCall(p, "get", id)
    \/ \E p \in Procs : ReadReturn(p)

\* A goroutine that can take the read lock is scheduled in the end.
SpecRead == Init /\ [][NextRead]_vars /\ \A p \in Procs : WF_vars(ReadReturn(p))

\* ------------------------------------------ default route and maintenance handlers

\* The bodies POST /api/default-route receives.
RouteReqs ==
    { [ZeroRoute EXCEPT !.Mode = "custom_page", !.CustomHTML = <<"h", "i">>],
      [ZeroRoute EXCEPT !.Mode = "custom_page"],
      [ZeroRoute EXCEPT !.Mode = "redirect", !.RedirectURL = HttpsScheme \o <<"x">>],
      [ZeroRoute EXCEPT !.Mode = "error_code", !.ErrorCode = 503,
                        !.ErrorPages = <<[Code |-> 503, CustomHTML |-> <<"d", "o", "w", "n">>]>>] }

\* The bodies POST /api/maintenance receives.
MaintenanceReqs ==
    { [Enabled |-> en, Message |-> msg] : en \in BOOLEAN, msg \in {<<>>, <<"<", "b", ">">>} }

\* What is in effect for unmatched requests: the config GetConfig reads, the
\* fragment on disk and the page nginx serves from them.
InEffect(r) == [config |-> GetConfig(r), fragment |-> r.fragment, page |-> ServedPage(r)]

\* handleSetDefaultRoute
HandleSetDefaultRoute(req, up) ==
    /\ LET r == Apply(RouteW, [req EXCEPT !.Enabled = TRUE])
       IN /\ SetRouteW(r)
          /\ last' = RespReload("route-set", "", HostsW, r, up, 200, 502)
    /\ treeChecked' = "stale"
    /\ UNCHANGED <<hostVars, clock, certVars, maintenanceMode, maintenanceMessage,
                   beforeMaint, hubVars, procVars, environ, certManager>>

\* handleDeleteDefaultRoute
HandleDeleteDefaultRoute(up) ==
    /\ LET r == Disable(RouteW)
       IN /\ SetRouteW(r)
          /\ last' = RespReload("route-delete", "", HostsW, r, up, 200, 502)
    /\ treeChecked' = "stale"
    /\ UNCHANGED <<hostVars, clock, certVars, maintenanceMode, maintenanceMessage,
                   beforeMaint, hubVars, procVars, environ, certManager>>

\* handleSetMaintenance's StatusMessage
MaintenanceMessage(req) ==
    [ Type |-> "maintenance_mode",
      Payload |-> [enabled |-> req.Enabled, message |-> req.Message] ]

\* handleSetMaintenance.  beforeMaint remembers what was in effect when the
\* request switching the mode on arrived.
HandleSetMaintenance(req, up) ==
    /\ maintenanceMode' = req.Enabled
    /\ maintenanceMessage' = req.Message
    /\ LET r == IF req.Enabled
                THEN ApplyMaintenance(RouteW, maintenanceHTML(req.Message))
                ELSE DisableMaintenance(RouteW)
       IN /\ SetRouteW(r)
          /\ last' = RespReload("global-maintenance", IF req.Enabled THEN "on" ELSE "off",
                                HostsW, r, up, 200, 502)
          /\ IF Reload(HostsW, r, up)
             THEN Broadcast(MaintenanceMessage(req))
             ELSE UNCHANGED <<hubSent, hubClients, hubRun, conns>>
    /\ beforeMaint' = IF req.Enabled THEN <<InEffect(RouteW)>> ELSE <<>>
    /\ treeChecked' = "stale"
    /\ UNCHANGED <<hostVars, clock, certVars, tickerPc, procVars, environ, certManager>>

\* The default route and the global maintenance mode, one request at a time.
NextRoute ==
    \/ \E req \in RouteReqs, up \in BOOLEAN : HandleSetDefaultRoute(req, up)
    \/ \E up \in BOOLEAN : HandleDeleteDefaultRoute(up)
    \/ \E req \in MaintenanceReqs, up \in BOOLEAN : HandleSetMaintenance(req, up)

SpecRoute == Init /\ [][NextRoute]_vars

\* ---------------------------------------------------- the status broadcaster

\* broadcastNginxStatus' StatusMessage: running and configValid are both read
\* off the output of `nginx -t`.
NginxStatusMessage(w, r) ==
    [ Type |-> "nginx_status",
      Payload |-> [running |-> CheckConfig(w, r), configValid |-> CheckConfig(w, r)] ]

\* broadcastMetrics' StatusMessage; the counters come from outside the daemon.
MetricsMessage == [Type |-> "metrics", Payload |-> [activeConnections |-> 0]]

\* A broadcaster that sends the metrics alone.
TickerMessagesMetricsOnly == <<"metrics", "metrics">>

\* What the broadcaster's loop sends on each tick, in order.
TickerMessages == <<"nginx_status", "metrics">>

\* StartStatusBroadcaster's loop, first call: broadcastNginxStatus hands its
\* message to Hub.Run, which writes it to the clients.
TickerStatus ==
    /\ tickerPc = "status"
    /\ Broadcast(IF TickerMessages[1] = "nginx_status"
                 THEN NginxStatusMessage(HostsW, RouteW) ELSE MetricsMessage)
    /\ tickerPc' = "metrics"
    /\ treeChecked' = IF CheckConfig(HostsW, RouteW) THEN "ok" ELSE "bad"
    /\ last' = Resp("broadcast", TickerMessages[1], 0, "", "none", "")
    /\ UNCHANGED <<hostVars, clock, certVars, drState, drFragment, drLink, htmlDir, backup,
                   maintenanceMode, maintenanceMessage, beforeMaint, procVars,
                   environ, certManager>>

\* StartStatusBroadcaster's loop, second call: broadcastMetrics, then the
\* loop waits for the next tick.
TickerMetrics ==
    /\ tickerPc = "metrics"
    /\ Broadcast(MetricsMessage)
    /\ tickerPc' = "status"
    /\ last' = Resp("broadcast", TickerMessages[2], 0, "", "none", "")
    /\ UNCHANGED <<hostVars, treeChecked, clock, certVars, drState, drFragment, drLink,
                   htmlDir, backup, maintenanceMode, maintenanceMessage, beforeMaint, procVars,
                   environ, certManager>>

\* The host endpoints beside the status broadcaster.
NextTelemetry ==
    \/ \E req \in {BaseReq, TaggedReq}, up \in BOOLEAN : HandleCreateHost(req, up)
    \/ \E id \in HostIds, req \in {BaseReq, TaggedReq}, up \in BOOLEAN : HandleUpdateHost(id, req, up)
    \/ \E id \in HostIds, up \in BOOLEAN : HandleDeleteHost(id, up)
    \/ \E id \in HostIds, en \in BOOLEAN, up \in BOOLEAN : HandleToggleHost(id, en, up)
    \/ \E id \in HostIds, m \in BOOLEAN, up \in BOOLEAN : HandleToggleMaintenance(id, m, up)
    \/ \E overwrite \in BOOLEAN, up \in BOOLEAN : HandleImportHosts(ImportFile, "file", overwrite, up)
    \/ TickerStatus
    \/ TickerMetrics

\* The ticker fires every five seconds for as long as the daemon runs.
SpecTelemetry ==
    Init /\ [][NextTelemetry]_vars /\ WF_vars(TickerStatus) /\ WF_vars(TickerMetrics)

\* ------------------------------------------------ properties, hosts one at a time

\* The handlers that change a host.
HostMutationOps == {"create", "update", "delete", "toggle", "maintenance", "import"}

\* No two hosts of the store have the same domain.
DomainsUnique(hs) == \A i, j \in DOMAIN hs : hs[i].Domain = hs[j].Domain => i = j

\* C1: with the host handlers served one at a time (import included), no
\* step leaves two hosts with equal domains, and a create or update naming a
\* domain another host holds is rejected with the store left as it was.
C1_DomainsUniqueSerial ==
    [][ /\ DomainsUnique(hosts')
        /\ (last'.op \in {"create", "update"} /\ last'.err = "domain already exists")
             => (hosts' = hosts /\ available' = available /\ last'.code = 400) ]_vars

\* C1's case: an update was refused for naming the other host's domain.
C1_Witness ==
    /\ Cardinality(DOMAIN hosts) = 2
    /\ last.op = "update"
    /\ last.err = "domain already exists"

\* C2: when a host mutation leaves a tree that `nginx -t` refuses, the
\* fragments on disk and the host store are what they were before it and the
\* operator is answered with an error.
C2_InvalidConfigRolledBack ==
    [][ ( /\ last'.op \in HostMutationOps
          /\ CheckConfig(HostsW, RouteW)
          /\ ~CheckConfig(HostsW', RouteW') )
        => ( /\ available' = available
             /\ hosts' = hosts
             /\ last'.code >= 400 ) ]_vars

\* C3: a mutation handler reloads nginx only when the tree it wrote has
\* passed `nginx -t` since the write.
C3_ReloadOnlyAfterValidation ==
    (last.op \in HostMutationOps /\ last.reload # "none") => last.after = "ok"

\* C8: importing the export of the current hosts with overwrite leaves the
\* same ids, each host equal to what it was in every field but UpdatedAt.
C8_ExportImportRoundTrip ==
    [][ (last'.op = "import" /\ last'.arg = "export-overwrite" /\ last'.code = 200)
        => ( /\ DOMAIN hosts' = DOMAIN hosts
             /\ \A id \in DOMAIN hosts :
                  [hosts'[id] EXCEPT !.UpdatedAt = 0] = [hosts[id] EXCEPT !.UpdatedAt = 0] ) ]_vars

\* ------------------------------------------------ properties, concurrent hosts

\* Goroutines between the start of their fragment write and the end of their reload.
InBarrier ==
    {p \in Procs : pc[p] \in {"create:written", "create:added", "create:saved",
                              "update:written", "update:saved"}}

\* C4: at no time are two mutations both between the start of their fragment
\* write and the end of their reload.
C4_MutationsSerialized == Cardinality(InBarrier) <= 1

\* C5: under concurrent create and update requests the store never holds two
\* hosts with the same domain.
C5_DomainsUniqueConcurrent == DomainsUnique(hosts)

\* ------------------------------------------- properties, certificates and tags

\* C6: once DeleteTag(T) has succeeded, no host and no certificate carries T.
C6_DeletedTagScrubbed ==
    (last.op = "tag-delete" /\ last.code = 200)
    => ( /\ \A h \in DOMAIN hosts : last.arg \notin Range(hosts[h].Tags)
         /\ \A c \in DOMAIN certs : last.arg \notin Range(certs[c].Tags) )

\* C7: every host's non-empty CertificateID names a certificate of the store.
C7_CertificateIdResolves ==
    \A h \in DOMAIN hosts :
        hosts[h].CertificateID # "" => hosts[h].CertificateID \in DOMAIN certs

C10_MaintenanceRestoresRoute ==
    [][ /\ (maintenanceMode' /\ beforeMaint'[1].config.Enabled)
            => backup' = <<RouteToJSON(beforeMaint'[1].config)>>
        /\ (last'.op = "global-maintenance" /\ maintenanceMode /\ ~maintenanceMode')
            => InEffect(RouteW') = beforeMaint[1] ]_vars

\* The default route and the global maintenance handlers.
RouteMutationOps == {"route-set", "route-delete", "global-maintenance"}

\* The pages handleSetMaintenance can have written.
MaintenancePages == {maintenanceHTML(req.Message) : req \in MaintenanceReqs}

\* C11: the maintenance status the daemon reports is enabled exactly when the
\* active default-route fragment serves the maintenance page.
C11_StatusMatchesFragment ==
    maintenanceMode <=> (\E page \in MaintenancePages : ServedPage(RouteW) = <<"200">> \o page)

\* C12: a default-route or global-maintenance request whose reload fails is
\* answered with a success status carrying a warning, its state persisted.
C12_ReloadFailureIsWarning ==
    (last.op \in RouteMutationOps /\ last.reload = "failed")
    => (last.code < 400 /\ last.err # "")

\* C13: a successful renewal of certificate C leaves the store with the same
\* certificate ids, every other certificate as it was, C changed in nothing
\* but its paths, expiry and updatedAt, and every host bound to C still bound.
C13_RenewalKeepsStore ==
    [][ (last'.op = "renew" /\ last'.code = 200)
        => LET c == last'.arg
               Kept(cert) == [cert EXCEPT !.CertPath = <<>>, !.KeyPath = <<>>,
                                          !.ExpiresAt = 0, !.UpdatedAt = 0]
           IN /\ DOMAIN certs' = DOMAIN certs
              /\ \A o \in DOMAIN certs \ {c} : certs'[o] = certs[o]
              /\ Kept(certs'[c]) = Kept(certs[c])
              /\ \A h \in DOMAIN hosts :
                    hosts[h].CertificateID = c => hosts'[h].CertificateID = c ]_vars

\* C14: no two tags of the store have the same display name.
C14_TagNamesUnique ==
    \A i, j \in DOMAIN tags : tags[i].Name = tags[j].Name => i = j

\* C15: every stored host has a non-empty domain matching the domain pattern
\* and, when it has no backends, a target starting with http:// or https://.
C15_StoredHostsValid ==
    \A id \in DOMAIN hosts :
        /\ hosts[id].Domain # <<>>
        /\ domainRegex(TrimPrefix(hosts[id].Domain, <<"*", ".">>))
        /\ Len(hosts[id].Backends) = 0
             => (HasPrefix(hosts[id].Target, HttpScheme) \/ HasPrefix(hosts[id].Target, HttpsScheme))

\* C16: no stored host has forceSSL set with ssl unset.
C16_ForceSSLNeedsSSL ==
    \A id \in DOMAIN hosts : hosts[id].ForceSSL => hosts[id].SSL

\* C17: once every concurrent host mutation has completed, proxy_hosts.json
\* holds exactly the hosts of the in-memory map.
C17_FileMatchesStore ==
    (\A p \in Procs : pc[p] = "idle") => hostsFile = {hosts[i] : i \in DOMAIN hosts}

\* C18: every List or Get call on the host store returns in the end.
C18_ReadsReturn ==
    \A p \in Procs : (pc[p] \in {"list:called", "get:called"}) ~> (pc[p] = "idle")

C20_MaintenanceBroadcast ==
    [][ last'.op = "global-maintenance"
        => ( /\ Len(hubSent') = 1
             /\ hubSent'[1].Type = "maintenance_mode"
             /\ hubSent'[1].Payload.enabled = maintenanceMode'
             /\ hubSent'[1].Payload.message = maintenanceMessage' ) ]_vars

\* ------------------------------------------------------- the WebSocket hub

\* What one WriteJSON leaves on the wire: the message's type and, for a
\* broadcast, the number Hub.Run took it under (0 for a direct send).
WireEntry(type, seq) == [Type |-> type, Seq |-> seq]

\* sendInitialStatus' three messages, in order.
InitialMessages == <<"nginx_status", "maintenance_mode", "metrics">>

\* conn.WriteJSON returns an error on a connection that is not open.
WriteFails(conn) == conn.state # "open"

\* conn.WriteJSON
WriteJSON(conn, entry) ==
    IF WriteFails(conn) THEN conn ELSE [conn EXCEPT !.log = Append(@, entry)]

\* A hub that keeps a client whose write failed.
RemoveFailedKept(clients, c) == clients

\* Hub.Run on a failed write: delete(h.clients, conn)
RemoveFailed(clients, c) == clients \ {c}

\* A loop that comes back to the client it has just written to.
VisitedAgain(todo, c) == todo

\* Hub.Run's `for conn := range h.clients` moves past conn.
Visited(todo, c) == todo \ {c}

\* One pass of the body of Hub.Run's loop over the clients, for client c.
HubWritten(c) ==
    LET failed == WriteFails(conns[c])
        todo == Visited(hubRun.todo, c)
    IN [ conns |-> [conns EXCEPT ![c] =
                        IF failed THEN [@ EXCEPT !.state = "closed"]
                        ELSE WriteJSON(@, WireEntry(hubRun.msg[1].Type, hubRun.seq))],
         clients |-> IF failed THEN RemoveFailed(hubClients, c) ELSE hubClients,
         run |-> [hubRun EXCEPT !.todo = todo, !.msg = IF todo = {} THEN <<>> ELSE @] ]

\* One WriteJSON of sendInitialStatus on connection conn; pcField counts the
\* messages of the goroutine started by HandleWebSocket ("initPc") or of the
\* get_status reply ("replyPc").
StatusWritten(conn, n) == WriteJSON(conn, WireEntry(InitialMessages[n], 0))
NextStatus(n) == IF n = Len(InitialMessages) THEN 0 ELSE n + 1

\* HandleWebSocket: the connection is registered with the hub, and the
\* goroutines sendInitialStatus and handleWSMessages are started.
HandleWebSocket(c) ==
    /\ conns[c].state = "none"
    /\ HubReady(hubRun)
    /\ hubClients' = hubClients \cup {c}
    /\ conns' = [conns EXCEPT ![c] =
                    [NoConn EXCEPT !.state = "open", !.initPc = 1, !.reading = TRUE]]
    /\ UNCHANGED <<hostVars, treeChecked, clock, last, certVars, drState, drFragment, drLink,
                   htmlDir, backup, maintenanceMode, maintenanceMessage, beforeMaint,
                   hubSent, tickerPc, hubRun, procVars, environ, certManager>>

\* The peer goes away: from now on writes and reads on the connection fail.
PeerGone(c) ==
    /\ conns[c].state = "open"
    /\ conns' = [conns EXCEPT ![c].state = "broken"]
    /\ UNCHANGED <<hostVars, treeChecked, clock, last, certVars, drState, drFragment, drLink,
                   htmlDir, backup, maintenanceMode, maintenanceMessage, beforeMaint,
                   hubSent, tickerPc, hubClients, hubRun, procVars, environ, certManager>>

\* handleWSMessages, actions "reload" and "test": broadcastNginxStatus.
WSCommand(c, action) ==
    /\ conns[c].reading
    /\ conns[c].state = "open"
    /\ conns[c].replyPc = 0
    /\ hubRun.seq < MaxMsgs
    /\ Broadcast(NginxStatusMessage(HostsW, RouteW))
    /\ treeChecked' = IF CheckConfig(HostsW, RouteW) THEN "ok" ELSE "bad"
    /\ UNCHANGED <<hostVars, clock, last, certVars, drState, drFragment, drLink, htmlDir, backup,
                   maintenanceMode, maintenanceMessage, beforeMaint, tickerPc, procVars,
                   environ, certManager>>

\* handleWSMessages, ReadMessage fails: the deferred send on h.unregister,
\* which Hub.Run serves by deleting and closing the connection it still has.
ReaderExits(c) ==
    /\ conns[c].reading
    /\ conns[c].state \in {"broken", "closed"}
    /\ conns[c].replyPc = 0
    /\ HubReady(hubRun)
    /\ hubClients' = hubClients \ {c}
    /\ conns' = [conns EXCEPT ![c].reading = FALSE,
                              ![c].state = IF c \in hubClients THEN "closed" ELSE @]
    /\ UNCHANGED <<hostVars, treeChecked, clock, last, certVars, drState, drFragment, drLink,
                   htmlDir, backup, maintenanceMode, maintenanceMessage, beforeMaint,
                   hubSent, tickerPc, hubRun, procVars, environ, certManager>>

\* Hub.Run writes the message in hand to client c and moves on.
HubWrite(c) ==
    /\ ~HubReady(hubRun)
    /\ c \in hubRun.todo
    /\ conns' = HubWritten(c).conns
    /\ hubClients' = HubWritten(c).clients
    /\ hubRun' = HubWritten(c).run
    /\ UNCHANGED <<hostVars, treeChecked, clock, last, certVars, drState, drFragment, drLink,
                   htmlDir, backup, maintenanceMode, maintenanceMessage, beforeMaint,
                   hubSent, tickerPc, procVars, environ, certManager>>

\* sendInitialStatus from message n on, with no other write in between.
RECURSIVE StatusWrittenFrom(_, _)
StatusWrittenFrom(conn, n) ==
    IF n = 0 THEN conn ELSE StatusWrittenFrom(StatusWritten(conn, n), NextStatus(n))

\* sendInitialStatus, started by HandleWebSocket, runs to its end.
SendInitialStatus(c) ==
    /\ conns[c].initPc > 0
    /\ conns' = [conns EXCEPT ![c] =
                    [StatusWrittenFrom(@, conns[c].initPc) EXCEPT !.initPc = 0]]
    /\ UNCHANGED <<hostVars, treeChecked, clock, last, certVars, drState, drFragment, drLink,
                   htmlDir, backup, maintenanceMode, maintenanceMessage, beforeMaint,
                   hubSent, tickerPc, hubClients, hubRun, procVars, environ, certManager>>

\* The hub with its clients; Hub.Run writes to one client per step.
NextHub ==
    \/ \E c \in Sinks : HandleWebSocket(c)
    \/ \E c \in Sinks : SendInitialStatus(c)
    \/ \E c \in Sinks, action \in {"reload", "test"} : WSCommand(c, action)
    \/ \E c \in Sinks : PeerGone(c)
    \/ \E c \in Sinks : HubWrite(c)
    \/ \E c \in Sinks : ReaderExits(c)

SpecHub == Init /\ [][NextHub]_vars

\* The goroutines that call WriteJSON: Hub.Run, the sendInitialStatus started
\* by HandleWebSocket, and handleWSMessages replying to get_status.
Tasks == {"hub", "init", "reader"}

\* The next thing task does is a WriteJSON on connection c.
AboutToWrite(c, task) ==
    CASE task = "hub" -> /\ ~HubReady(hubRun)
                         /\ c \in hubRun.todo
                         /\ \A d \in Sinks : "hub" \notin conns[d].writing
      [] task = "init" -> conns[c].initPc > 0 /\ "init" \notin conns[c].writing
      [] OTHER -> conns[c].replyPc > 0 /\ "reader" \notin conns[c].writing

\* task enters conn.WriteJSON.  Entering while another goroutine is inside is
\* a concurrent write, which the connection does not support: the frames may
\* still come out whole, or the stream is garbled and the peer drops it.
WriteBegin(c, task, garbled) ==
    /\ AboutToWrite(c, task)
    /\ garbled => (conns[c].writing # {} /\ conns[c].state = "open")
    /\ conns' = [conns EXCEPT ![c].writing = @ \cup {task},
                              ![c].state = IF garbled THEN "broken" ELSE @]
    /\ UNCHANGED <<hostVars, treeChecked, clock, last, certVars, drState, drFragment, drLink,
                   htmlDir, backup, maintenanceMode, maintenanceMessage, beforeMaint,
                   hubSent, tickerPc, hubClients, hubRun, procVars, environ, certManager>>

\* task returns from conn.WriteJSON and goes on.
WriteEnd(c, task) ==
    /\ task \in conns[c].writing
    /\ CASE task = "hub" ->
               /\ conns' = [HubWritten(c).conns EXCEPT ![c].writing = @ \ {task}]
               /\ hubClients' = HubWritten(c).clients
               /\ hubRun' = HubWritten(c).run
         [] task = "init" ->
               /\ conns' = [conns EXCEPT ![c] =
                               [StatusWritten(@, conns[c].initPc)
                                   EXCEPT !.initPc = NextStatus(@), !.writing = @ \ {task}]]
               /\ UNCHANGED <<hubClients, hubRun>>
         [] OTHER ->
               /\ conns' = [conns EXCEPT ![c] =
                               [StatusWritten(@, conns[c].replyPc)
                                   EXCEPT !.replyPc = NextStatus(@), !.writing = @ \ {task}]]
               /\ UNCHANGED <<hubClients, hubRun>>
    /\ UNCHANGED <<hostVars, treeChecked, clock, last, certVars, drState, drFragment, drLink,
                   htmlDir, backup, maintenanceMode, maintenanceMessage, beforeMaint,
                   hubSent, tickerPc, procVars, environ, certManager>>

\* handleWSMessages, action "get_status": sendInitialStatus(conn), called in
\* the reading goroutine.  The client asks once its initial status is through.
GetStatus(c) ==
    /\ conns[c].reading
    /\ conns[c].state = "open"
    /\ conns[c].replyPc = 0
    /\ conns[c].initPc = 0
    /\ Len(conns[c].log) + Len(InitialMessages) <= MaxLog
    /\ conns' = [conns EXCEPT ![c].replyPc = 1]
    /\ UNCHANGED <<hostVars, treeChecked, clock, last, certVars, drState, drFragment, drLink,
                   htmlDir, backup, maintenanceMode, maintenanceMessage, beforeMaint,
                   hubSent, tickerPc, hubClients, hubRun, procVars, environ, certManager>>

\* The hub with clients that stay; entering and leaving WriteJSON are two steps.
NextSinks ==
    \/ \E c \in Sinks : HandleWebSocket(c)
    \/ \E c \in Sinks, action \in {"reload", "test"} : WSCommand(c, action)
    \/ \E c \in Sinks : GetStatus(c)
    \/ \E c \in Sinks, task \in Tasks, garbled \in BOOLEAN : WriteBegin(c, task, garbled)
    \/ \E c \in Sinks, task \in Tasks : WriteEnd(c, task)

SpecSinks == Init /\ [][NextSinks]_vars

\* ------------------------------------------------------ properties, the hub

\* The numbers of the broadcasts on a connection's wire, in wire order.
RECURSIVE BroadcastSeqs(_)
BroadcastSeqs(log) ==
    IF log = <<>> THEN <<>>
    ELSE IF log[1].Seq > 0 THEN <<log[1].Seq>> \o BroadcastSeqs(Tail(log))
    ELSE BroadcastSeqs(Tail(log))

\* Hub.Run's loop has just passed client c.
HubPassed(c) == c \in hubRun.todo /\ c \notin hubRun'.todo

\* C21: when Hub.Run's write to a client fails, the client leaves h.clients
\* and the rest of the loop, nothing is written to it, and no other client is
\* touched: each stays registered, keeps its place in the loop, and a write to
\* it that succeeds puts the message in hand on its wire.  A broadcast reaches
\* the wire of a connection only through such a write, to a registered client.
C21_FailedSinkRemoved ==
    [][ \A c \in Sinks :
          /\ (HubPassed(c) /\ WriteFails(conns[c]))
                => /\ c \notin hubClients'
                   /\ conns'[c].log = conns[c].log
                   /\ \A d \in Sinks \ {c} :
                         /\ conns'[d] = conns[d]
                         /\ (d \in hubClients') = (d \in hubClients)
                         /\ (d \in hubRun.todo) => (d \in hubRun'.todo)
          /\ (HubPassed(c) /\ ~WriteFails(conns[c]))
                => /\ conns'[c].log =
                          Append(conns[c].log, WireEntry(hubRun.msg[1].Type, hubRun.seq))
                   /\ hubClients' = hubClients
          /\ (conns'[c].log # conns[c].log /\ conns'[c].log[Len(conns'[c].log)].Seq > 0)
                => (c \in hubClients /\ HubPassed(c))
          /\ (hubRun'.todo # {}) => ~HubReady(hubRun') ]_vars

\* C21's case: the second broadcast failed on one client, which is out of the
\* hub with the first broadcast alone on its wire, and reached another.
C21_Witness ==
    /\ HubReady(hubRun)
    /\ hubRun.seq = 2
    /\ \E c \in Sinks, d \in Sinks :
          /\ c # d
          /\ conns[c].state = "closed"
          /\ conns[c].reading
          /\ c \notin hubClients
          /\ BroadcastSeqs(conns[c].log) = <<1>>
          /\ d \in hubClients
          /\ BroadcastSeqs(conns[d].log) = <<1, 2>>

\* C23: on every connection the broadcasts stand on the wire in the order in
\* which Hub.Run took them from h.broadcast, each at most once.
C23_PerSinkFifo ==
    \A c \in Sinks :
        LET seqs == BroadcastSeqs(conns[c].log)
        IN /\ \A i \in 1..Len(seqs) : seqs[i] <= hubRun.seq
           /\ \A i \in 1..Len(seqs), j \in 1..Len(seqs) : i < j => seqs[i] < seqs[j]

\* C23's case: two clients with two broadcasts each on the wire.
C23_Witness ==
    /\ Cardinality(hubClients) >= 2
    /\ \A c \in hubClients : Len(BroadcastSeqs(conns[c].log)) = 2

\* C22: at no time are two goroutines inside WriteJSON on one connection.
C22_SingleWriter ==
    \A c \in Sinks : Cardinality(conns[c].writing) <= 1

\* -------------------------------------------------- concurrent ACME issuance

\* The DNS provider configurations of the requests: the value each gives for
\* CF_DNS_API_TOKEN.
DnsTokens == {<<"token-a">>, <<"token-b">>}

\* setupDNSProvider, first half: os.Setenv for every key of the request's
\* provider configuration.
IssueSetenv(p, token) ==
    /\ pc[p] = "idle"
    /\ nextCert + Cardinality({q \in Procs : pc[q] # "idle"}) <= MaxCerts
    /\ environ' = token
    /\ pc' = [pc EXCEPT ![p] = "issue:envset"]
    /\ loc' = [loc EXCEPT ![p] = [IdleLoc EXCEPT !.config = token]]
    /\ last' = Resp("issue:setenv", "", 0, "", "none", "")
    /\ UNCHANGED <<hostVars, treeChecked, clock, certVars, drState, drFragment, drLink,
                   htmlDir, backup, maintenanceMode, maintenanceMessage, beforeMaint, hubVars,
                   certManager>>

\* setupDNSProvider, second half: cloudflare.NewDNSProvider() takes its
\* credentials from the environment.
IssueNewProvider(p) ==
    /\ pc[p] = "issue:envset"
    /\ loc' = [loc EXCEPT ![p].provider = environ]
    /\ pc' = [pc EXCEPT ![p] = "issue:provider"]
    /\ last' = Resp("issue:provider", "", 0, "", "none", "")
    /\ UNCHANGED <<hostVars, treeChecked, clock, certVars, routeVars>>

\* The rest of IssueCertificate and of handleIssueLetsEncrypt: the ACME
\* exchange with the provider made, CreateCertificate, the response; obtained
\* tells whether the exchange succeeded.
IssueObtain(p, domains, obtained) ==
    /\ pc[p] = "issue:provider"
    /\ IF ~obtained
       THEN /\ last' = Resp("issue", "", 500, "failed to obtain certificate", "none", "")
            /\ UNCHANGED <<certs, nextCert>>
       ELSE LET res == CreateCertificate(certs, nextCert, IssuedCert(domains, clock), clock)
            IN /\ certs' = res.certs
               /\ nextCert' = nextCert + 1
               /\ last' = Resp("issue", res.cert.ID, 200, "", "none", "")
    /\ pc' = [pc EXCEPT ![p] = "idle"]
    /\ loc' = [loc EXCEPT ![p] = IdleLoc]
    /\ UNCHANGED <<hostVars, treeChecked, clock, tags, nextTag, needsRenewal, routeVars>>

\* Issuance requests served by goroutines of their own.
NextIssue ==
    \/ \E p \in Procs, token \in DnsTokens : IssueSetenv(p, token)
    \/ \E p \in Procs : IssueNewProvider(p)
    \/ \E p \in Procs, obtained \in BOOLEAN : IssueObtain(p, <<"a.b">>, obtained)

SpecIssue == Init /\ [][NextIssue]_vars

\* C24: while an issuance is between setting its provider configuration in
\* the environment and the end of its call, the environment holds that
\* configuration.
C24_EnvNotClobbered ==
    \A p \in Procs :
        pc[p] \in {"issue:envset", "issue:provider"} => environ = loc[p].config

\* ------------------------------------------------------------ daemon startup

\* What a start of the daemon may find of a persisted file.
FileConditions == {"missing", "corrupt"}
PersistedFiles == {"proxy_hosts.json", "certificates.json", "tags.json"}

\* ProxyHostManager.load: [hosts, err].  A file that is missing or does not
\* parse leaves the map NewProxyHostManager made; the caller prints the error.
LoadHosts(file, condition) ==
    IF condition = "missing" THEN [hosts |-> <<>>, err |-> "no such file or directory"]
    ELSE IF condition = "corrupt" THEN [hosts |-> <<>>, err |-> "unexpected end of JSON input"]
    ELSE [ hosts |-> [i \in {h.ID : h \in file} |-> CHOOSE h \in file : h.ID = i],
           err |-> "" ]

\* CertificateManager.load: [certs, tags, err].  A missing certificates.json
\* ends the load before tags.json is looked at; a missing tags.json is passed
\* over.
LoadCertificates(cs, certsCondition, ts, tagsCondition) ==
    IF certsCondition = "missing" THEN [certs |-> <<>>, tags |-> <<>>, err |-> ""]
    ELSE IF certsCondition = "corrupt"
    THEN [certs |-> <<>>, tags |-> <<>>, err |-> "unexpected end of JSON input"]
    ELSE IF tagsCondition = "missing" THEN [certs |-> cs, tags |-> <<>>, err |-> ""]
    ELSE IF tagsCondition = "corrupt"
    THEN [certs |-> cs, tags |-> <<>>, err |-> "unexpected end of JSON input"]
    ELSE [certs |-> cs, tags |-> ts, err |-> ""]

\* NewCertificateManager: the manager, or nil when load returned an error.
\* NewServer drops the error and keeps what it got.
NewCertificateManager(loaded) == IF loaded.err # "" THEN "nil" ELSE "ready"

\* What gin.Recovery answers when a handler calls a method of the nil manager.
NilDeref == "runtime error: invalid memory address or nil pointer dereference"

\* The daemon starts again; bad names the persisted file that is not as the
\* last run left it ("" for none) and condition says what is wrong with it.
\* NewServer builds the managers from the files and a Server with zero fields.
\* A file that is missing or does not parse holds no host; without a manager,
\* certs and tags keep what the files hold.
Restart(bad, condition) ==
    /\ \A p \in Procs : pc[p] = "idle"
    /\ LET cond(f) == IF bad = f THEN condition ELSE "valid"
           hs == LoadHosts(hostsFile, cond("proxy_hosts.json"))
           cm == LoadCertificates(certs, cond("certificates.json"), tags, cond("tags.json"))
       IN /\ hosts' = hs.hosts
          /\ certManager' = NewCertificateManager(cm)
          /\ certs' = IF NewCertificateManager(cm) = "nil" THEN certs ELSE cm.certs
          /\ tags' = IF NewCertificateManager(cm) = "nil" THEN tags ELSE cm.tags
          /\ hostsFile' = IF cond("proxy_hosts.json") = "valid" THEN hostsFile ELSE {}
    /\ hostsMu' = "free"
    /\ maintenanceMode' = FALSE
    /\ maintenanceMessage' = <<>>
    /\ environ' = <<>>
    /\ needsRenewal' = <<>>
    /\ last' = Resp("boot", bad, 0, "", "none", IF bad = "" THEN "" ELSE condition)
    /\ UNCHANGED <<available, enabled, nextId, treeChecked, clock, nextCert, nextTag,
                   drState, drFragment, drLink, htmlDir, backup, beforeMaint, hubVars, procVars>>

\* A request to the certificate manager: the handler, or the panic that
\* gin.Recovery turns into a 500 when Server.certManager is nil.
Recovered(op) ==
    /\ last' = Resp(op, "", 500, NilDeref, "none", "")
    /\ UNCHANGED <<hostVars, treeChecked, clock, certVars, routeVars, procVars>>

BootedCreateTag(name) ==
    IF certManager = "nil" THEN Recovered("tag-create") ELSE HandleCreateTag(name)

BootedDeleteTag(id) ==
    IF certManager = "nil" THEN Recovered("tag-delete") ELSE HandleDeleteTag(id)

BootedUploadCertificate(name, notAfter) ==
    IF certManager = "nil" THEN Recovered("upload")
    ELSE HandleUploadCertificate(name, notAfter)

\* The stores across restarts of the daemon.
NextBoot ==
    \/ \E bad \in PersistedFiles, condition \in FileConditions : Restart(bad, condition)
    \/ Restart("", "valid")
    \/ \E up \in BOOLEAN : HandleCreateHost(BaseReq, up)
    \/ \E name \in {"blue"} : BootedCreateTag(name)
    \/ \E id \in TagIds : BootedDeleteTag(id)
    \/ \E notAfter \in NotAfters : BootedUploadCertificate("site", notAfter)

SpecBoot == Init /\ [][NextBoot]_vars

\* C25: a start that finds one of the persisted files missing or corrupt
\* leaves the store of that file empty and in place, and no later request to
\* a store ends in the panic of a missing manager.
C25_BadFileNeverFatal ==
    [][ /\ (last'.op = "boot" /\ last'.arg = "proxy_hosts.json") => hosts' = <<>>
        /\ (last'.op = "boot" /\ last'.arg = "certificates.json")
              => (certManager' = "ready" /\ certs' = <<>>)
        /\ (last'.op = "boot" /\ last'.arg = "tags.json")
              => (certManager' = "ready" /\ tags' = <<>>)
        /\ last'.err # NilDeref ]_vars

\* --------------------------------------------------------- import batches

\* Import files: the two hosts of ImportFile, and a file that names a.b
\* twice, then a host with a malformed domain, then c.d.
ImportBatches ==
    { ImportFile,
      << HostToJSON(HostOfRequest(BaseReq)),
         HostToJSON(HostOfRequest([BaseReq EXCEPT !.Enabled = FALSE])),
         HostToJSON(HostOfRequest([BaseReq EXCEPT !.Domain = <<"-", "a">>])),
         HostToJSON(HostOfRequest([BaseReq EXCEPT !.Domain = DomCD])) >> }

\* Imports between creations and deletions, one request at a time.
NextImport ==
    \/ \E req \in {BaseReq, TaggedReq}, up \in BOOLEAN : HandleCreateHost(req, up)
    \/ \E id \in HostIds, up \in BOOLEAN : HandleDeleteHost(id, up)
    \/ \E id \in HostIds, en \in BOOLEAN, up \in BOOLEAN : HandleToggleHost(id, en, up)
    \/ \E batch \in ImportBatches, overwrite \in BOOLEAN, up \in BOOLEAN :
           HandleImportHosts(batch, "file", overwrite, up)

SpecImport == Init /\ [][NextImport]_vars

\* C26: an import with overwrite off leaves every host of the store as it
\* was; it counts as skipped every incoming host whose domain the store had,
\* and besides them only repetitions of a domain the batch itself created;
\* it counts as imported one host per domain that is new in the store; and
\* imported, skipped and the error strings add up to the incoming hosts.
C26_ImportKeepsExisting ==
    [][ (last'.op = "import" /\ last'.body # <<>> /\ ~last'.body[1].overwrite) =>
          LET b == last'.body[1]
              n == Len(b.hosts)
              existed(d) == \E id \in DOMAIN hosts : hosts[id].Domain = d
              created(d) == ~existed(d) /\ \E id \in DOMAIN hosts' : hosts'[id].Domain = d
              had == {i \in 1..n : existed(b.hosts[i].domain)}
              made == {i \in 1..n : created(b.hosts[i].domain)}
              madeDomains == {b.hosts[i].domain : i \in made}
          IN /\ \A id \in DOMAIN hosts : id \in DOMAIN hosts' /\ hosts'[id] = hosts[id]
             /\ b.imported = Cardinality(madeDomains)
             /\ b.skipped >= Cardinality(had)
             /\ b.skipped <= Cardinality(had) + Cardinality(made) - Cardinality(madeDomains)
             /\ b.imported + b.skipped + Len(b.errors) = n ]_vars

\* C26's case: one import with overwrite off that skipped two hosts, one of
\* a domain of the store and one repeated in the batch, created one and
\* reported one.
C26_Witness ==
    /\ last.op = "import"
    /\ last.body # <<>>
    /\ ~last.body[1].overwrite
    /\ Len(last.body[1].hosts) = 4
    /\ last.body[1].imported = 1
    /\ last.body[1].skipped = 2
    /\ Len(last.body[1].errors) = 1

\* ------------------------------------------------------- bulk tag requests

\* Hosts with and without the first tag, and bulk tag requests on them.
NextBulkTag ==
    \/ \E req \in {BaseReq, TaggedReq}, up \in BOOLEAN : HandleCreateHost(req, up)
    \/ \E id \in HostIds, up \in BOOLEAN : HandleDeleteHost(id, up)
    \/ \E id \in HostIds, en \in BOOLEAN, up \in BOOLEAN : HandleToggleHost(id, en, up)
    \/ \E id \in HostIds, action \in {"", "add", "remove"} :
           HandleBulkTagHosts("t1", <<id>>, action)
    \/ \E action \in {"", "add", "remove"} : HandleBulkTagHosts("t1", <<"h1", "h1">>, action)

SpecBulkTag == Init /\ [][NextBulkTag]_vars

\* The entries of a bulk tag request that change nothing: a stored host that
\* has the tag to add, or lacks the tag to remove.
BulkTagNoOps(hs, req) ==
    {i \in 1..Len(req.hostIds) :
        /\ req.hostIds[i] \in DOMAIN hs
        /\ (req.action = "add") = (req.tagId \in Range(hs[req.hostIds[i]].Tags))}

\* C27: a bulk tag request all of whose entries add a tag the host has or
\* remove a tag the host lacks is answered, counts every entry as updated and
\* leaves the tag lists as they were; and after an answered addition every
\* host named has the tag once.
C27_BulkTagIdempotent ==
    [][ last'.op = "bulk-tag" =>
          LET req == last'.body[1].req
              n == Len(req.hostIds)
          IN /\ (n > 0 /\ BulkTagNoOps(hosts, req) = 1..n)
                   => /\ last'.code = 200
                      /\ last'.body[1].updatedHosts = n
                      /\ \A i \in 1..n :
                            hosts'[req.hostIds[i]].Tags = hosts[req.hostIds[i]].Tags
             /\ (last'.code = 200 /\ req.action = "add")
                   => \A i \in 1..n :
                         req.hostIds[i] \in DOMAIN hosts'
                            => Len(SelectSeq(hosts'[req.hostIds[i]].Tags,
                                             LAMBDA t : t = req.tagId)) = 1 ]_vars

\* ------------------------------------------------------ fragment file names

\* An update that names a domain with an underscore in it.
UnderscoreReq == [BaseReq EXCEPT !.Domain = <<"a", "_", "b">>]

\* Creations and updates that choose the domains of the store.
NextNames ==
    \/ \E req \in {BaseReq, TaggedReq}, up \in BOOLEAN : HandleCreateHost(req, up)
    \/ \E id \in HostIds, req \in {BaseReq, TaggedReq, UnderscoreReq}, up \in BOOLEAN :
           HandleUpdateHost(id, req, up)
    \/ \E id \in HostIds, up \in BOOLEAN : HandleDeleteHost(id, up)
    \/ \E id \in HostIds, en \in BOOLEAN, up \in BOOLEAN : HandleToggleHost(id, en, up)
    \/ \E id \in HostIds, m \in BOOLEAN, up \in BOOLEAN : HandleToggleMaintenance(id, m, up)

SpecNames == Init /\ [][NextNames]_vars

\* C28: two stored hosts with different domains, each accepted by Create or
\* by Update, have different fragment file names.
C28_FilenamesInjective ==
    \A i \in DOMAIN hosts, j \in DOMAIN hosts :
        hosts[i].Domain # hosts[j].Domain
            => configPath(hosts[i].Domain) # configPath(hosts[j].Domain)

\* C29: between requests every stored host has its fragment under
\* sites-available, has its symlink under sites-enabled exactly when it is
\* enabled, and every nubi-host fragment and symlink is that of a stored host.
C29_DiskMatchesStore ==
    /\ \A i \in DOMAIN hosts :
          /\ configPath(hosts[i].Domain) \in DOMAIN available
          /\ (configPath(hosts[i].Domain) \in enabled) = hosts[i].Enabled
    /\ \A f \in (DOMAIN available) \cup enabled :
          \E i \in DOMAIN hosts : f = configPath(hosts[i].Domain)

\* ------------------------------------------------- host files that fail

\* The file system call that fails during a request, "" for none: the disk
\* is full when the fragment is to be created, or when the symlink is.
FsFaults == {"", "os.Create", "os.Symlink"}

\* updateSymlink with its error: [w, err]
updateSymlinkErr(w, host, fault) ==
    LET w1 == [w EXCEPT !.enabled = @ \ {configPath(host.Domain)}] IN
    IF host.Enabled /\ fault = "os.Symlink"
    THEN [w |-> w1, err |-> "failed to create symlink"]
    ELSE [w |-> updateSymlink(w, host), err |-> ""]

\* writeNginxConfig with its errors: [w, err]
writeNginxConfigErr(w, host, fault) ==
    IF fault = "os.Create" THEN [w |-> w, err |-> "failed to create config file"]
    ELSE updateSymlinkErr(
             [w EXCEPT !.available = Put(@, configPath(host.Domain), proxyHostTemplate(host))],
             host, fault)

\* ProxyHostManager.Create with the errors of writeNginxConfig: [w, err, id]
CreateErr(w, host, now, fault) ==
    LET err == CreateCheck(w.hosts, host) IN
    IF err # "" THEN [w |-> w, err |-> err, id |-> ""]
    ELSE LET h == CreateStamp(w, host, now)
             written == writeNginxConfigErr([w EXCEPT !.nextId = @ + 1], h, fault)
         IN IF written.err # "" THEN [w |-> written.w, err |-> written.err, id |-> ""]
            ELSE [w |-> save(CreateAdd(written.w, h)), err |-> "", id |-> h.ID]

\* ProxyHostManager.Update with the errors of writeNginxConfig: [w, err]
UpdateErr(w, id, updates, now, fault) ==
    LET err == UpdateCheck(w.hosts, id, updates) IN
    IF err # "" THEN [w |-> w, err |-> err]
    ELSE LET oldDomain == w.hosts[id].Domain
             w1 == [w EXCEPT !.hosts[id] = UpdateFields(@, updates, now)]
             host == w1.hosts[id]
             w2 == IF oldDomain # host.Domain THEN removeNginxConfig(w1, oldDomain) ELSE w1
             written == writeNginxConfigErr(w2, host, fault)
         IN IF written.err # "" THEN [w |-> written.w, err |-> written.err]
            ELSE [w |-> save(written.w), err |-> ""]

\* handleCreateHost on a disk that may fail
HandleCreateHostErr(req, up, fault) ==
    /\ hostsMu = "free"
    /\ nextId <= MaxIds
    /\ \E res \in {CreateErr(HostsW, HostOfRequest(req), clock, fault)} :
          IF req.Domain = <<>>
          THEN /\ last' = Resp("create", "", 400, "domain is required", "none", "")
               /\ UNCHANGED <<hostVars, treeChecked>>
          ELSE IF req.Target = <<>> /\ Len(req.Backends) = 0
          THEN /\ last' = Resp("create", "", 400, "Either target or backends is required",
                               "none", "")
               /\ UNCHANGED <<hostVars, treeChecked>>
          ELSE /\ SetHostsW(res.w)
               /\ UNCHANGED hostsMu
               /\ IF res.err # ""
                  THEN /\ last' = Resp("create", "", 400, res.err, "none", "")
                       /\ treeChecked' = IF res.w.available = available /\ res.w.enabled = enabled
                                         THEN treeChecked ELSE "stale"
                  ELSE /\ treeChecked' = "stale"
                       /\ last' = IF req.Enabled
                                  THEN RespReload("create", res.id, res.w, RouteW, up, 201, 200)
                                  ELSE Resp("create", res.id, 201, "", "none", "")
    /\ UNCHANGED <<clock, certVars, routeVars, procVars>>

\* handleUpdateHost on a disk that may fail
HandleUpdateHostErr(id, req, up, fault) ==
    /\ hostsMu = "free"
    /\ \E res \in {UpdateErr(HostsW, id, HostOfRequest(req), clock, fault)} :
          IF req.Domain = <<>>
          THEN /\ last' = Resp("update", id, 400, "domain is required", "none", "")
               /\ UNCHANGED <<hostVars, treeChecked>>
          ELSE /\ SetHostsW(res.w)
               /\ UNCHANGED hostsMu
               /\ IF res.err # ""
                  THEN /\ last' = Resp("update", id, 400, res.err, "none", "")
                       /\ treeChecked' = IF res.w.available = available /\ res.w.enabled = enabled
                                         THEN treeChecked ELSE "stale"
                  ELSE /\ treeChecked' = "stale"
                       /\ last' = RespReload("update", id, res.w, RouteW, up, 200, 200)
    /\ UNCHANGED <<clock, certVars, routeVars, procVars>>

\* Host requests on a disk that may fail, one at a time.
NextFaults ==
    \/ \E req \in HostReqs, up \in BOOLEAN, fault \in FsFaults :
           HandleCreateHostErr(req, up, fault)
    \/ \E id \in HostIds, req \in {BaseReq, TaggedReq}, up \in BOOLEAN, fault \in FsFaults :
           HandleUpdateHostErr(id, req, up, fault)
    \/ \E id \in HostIds, up \in BOOLEAN : HandleDeleteHost(id, up)

SpecFaults == Init /\ [][NextFaults]_vars

\* C30: a creation or an update that is answered with an error leaves the
\* host map, proxy_hosts.json, the fragments and the symlinks as they were.
C30_ErrorsHaveNoEffect ==
    [][ (last'.op \in {"create", "update"} /\ last'.code >= 400)
          => /\ hosts' = hosts
             /\ hostsFile' = hostsFile
             /\ available' = available
             /\ enabled' = enabled ]_vars

\* -------------------------------------------------- bulk certificate apply

\* The stored hosts a bulk apply request names, by id or by tag.
BulkApplyAffected(hs, req) ==
    {i \in DOMAIN hs : \/ i \in Range(req.hostIds)
                       \/ req.tagId # "" /\ req.tagId \in Range(hs[i].Tags)}

\* C31: bulk-applying a stored certificate to stored hosts is answered, and
\* every affected host then carries the certificate's id and paths with ssl
\* on, is in proxy_hosts.json as stored, and has its fragment rendered anew;
\* updatedHosts is the number of affected hosts.
C31_BulkApplyCompletes ==
    [][ (last'.op = "bulk-apply" /\ last'.code # 404)
          => LET req == last'.body[1].req
                 affected == BulkApplyAffected(hosts, req)
                 paths == GetCertificatePaths(certs, req.certificateId)
             IN affected # {}
                  => /\ last'.code = 200
                     /\ last'.body[1].updatedHosts = Cardinality(affected)
                     /\ hostsMu' = "free"
                     /\ \A i \in affected :
                           /\ hosts'[i].CertificateID = req.certificateId
                           /\ hosts'[i].CertPath = paths.certPath
                           /\ hosts'[i].KeyPath = paths.keyPath
                           /\ hosts'[i].SSL
                           /\ hosts'[i] \in hostsFile'
                           /\ configPath(hosts'[i].Domain) \in DOMAIN available'
                           /\ available'[configPath(hosts'[i].Domain)]
                                 = proxyHostTemplate(hosts'[i]) ]_vars

\* ---------------------------------------------------- load-balanced hosts

\* Backend addresses a request may carry: host:port, no port, port 0.
AddrX80 == <<"x", ":", "8", "0">>
AddrY80 == <<"y", ":", "8", "0">>
AddrNoPort == <<"x">>
AddrPortZero == <<"x", ":", "0">>

\* A Backend of weight 1 that is no backup.
BackendAt(address) == [Address |-> address, Weight |-> 1, Backup |-> FALSE]

\* A request for a load-balanced host with two well-formed backends.
BalancedReq ==
    [BaseReq EXCEPT !.Target = <<>>, !.LBMethod = "least_conn",
                    !.Backends = <<BackendAt(AddrX80), BackendAt(AddrY80)>>]

\* Requests with backends: two well-formed ones on the domains a.b and a-b,
\* and on c.d an unknown method, addresses without a usable port, and a
\* single backend without a target.
BalanceReqs ==
    { BalancedReq,
      [BalancedReq EXCEPT !.Domain = <<"a", "-", "b">>, !.LBMethod = "round_robin"],
      [BalancedReq EXCEPT !.Domain = DomCD, !.LBMethod = "fastest"],
      [BalancedReq EXCEPT !.Domain = DomCD, !.LBMethod = "ip_hash",
                          !.Backends = <<BackendAt(AddrX80), BackendAt(AddrNoPort)>>],
      [BalancedReq EXCEPT !.Domain = DomCD, !.LBMethod = "ip_hash",
                          !.Backends = <<BackendAt(AddrPortZero), BackendAt(AddrY80)>>],
      [BalancedReq EXCEPT !.Domain = DomCD, !.LBMethod = "round_robin",
                          !.Backends = <<BackendAt(AddrX80)>>],
      TaggedReq }

\* Hosts with backends created, updated and deleted, one request at a time.
NextBalance ==
    \/ \E req \in BalanceReqs, up \in BOOLEAN : HandleCreateHost(req, up)
    \/ \E id \in HostIds, req \in BalanceReqs, up \in BOOLEAN : HandleUpdateHost(id, req, up)
    \/ \E id \in HostIds, up \in BOOLEAN : HandleDeleteHost(id, up)

SpecBalance == Init /\ [][NextBalance]_vars

\* The number a string of decimal digits denotes, -1 for any other string.
DigitChars == <<"0", "1", "2", "3", "4", "5", "6", "7", "8", "9">>
RECURSIVE PortNumber(_, _)
PortNumber(s, acc) ==
    IF s = <<>> THEN acc
    ELSE IF Head(s) \notin Digits THEN 0 - 1
    ELSE PortNumber(Tail(s),
                    10 * acc + (CHOOSE n \in 0..9 : DigitChars[n + 1] = Head(s)))

\* An address of the form host:port with a port between 1 and 65535.
HostPort(address) ==
    LET parts == SplitOn(address, ":") IN
    /\ Len(parts) = 2
    /\ parts[1] # <<>>
    /\ parts[2] # <<>>
    /\ PortNumber(parts[2], 0) \in 1..65535

\* The load-balancing policies.
LBMethods == {"round_robin", "least_conn", "ip_hash"}

\* A host without backends, or one whose method and addresses are in order.
BalancedHostValid(h) ==
    Len(h.Backends) > 0
       => /\ h.LBMethod \in LBMethods
          /\ \A i \in 1..Len(h.Backends) : HostPort(h.Backends[i].Address)

\* C32: a creation or an update either is rejected and leaves the store as
\* it was, or stores a host that, if it has backends, has a known method and
\* host:port addresses with ports from 1 to 65535.
C32_BalancedHostsValidated ==
    [][ last'.op \in {"create", "update"}
          => IF last'.code >= 400
             THEN hosts' = hosts /\ hostsFile' = hostsFile
             ELSE last'.arg \in DOMAIN hosts' => BalancedHostValid(hosts'[last'.arg]) ]_vars

\* C37: the fragment of every stored host that is not in maintenance
\* proxies to the host's upstream block when the host has two or more
\* backends, and otherwise to a target that begins with http:// or https://.
C37_UsableProxyTarget ==
    \A id \in DOMAIN hosts :
       ~hosts[id].Maintenance
          => LET location == proxyHostTemplate(hosts[id]).location IN
             IF Len(hosts[id].Backends) >= 2
             THEN location = <<"proxy_pass http://">> \o UpstreamName(hosts[id])
             ELSE /\ validateTarget(hosts[id].Target) = ""
                  /\ location = <<"proxy_pass ">> \o hosts[id].Target

\* C38: two stored load-balanced hosts have different upstream names.
C38_UpstreamNamesDistinct ==
    \A i, j \in DOMAIN hosts :
       (i # j /\ HasLoadBalancing(hosts[i]) /\ HasLoadBalancing(hosts[j]))
          => UpstreamName(hosts[i]) # UpstreamName(hosts[j])

\* ------------------------------------------------------ issuance requests

\* C33: the certificate an issuance stores has the autoRenew flag of the
\* request that asked for it.
C33_AutoRenewAsRequested ==
    [][ (last'.op = "issue" /\ last'.code = 200)
          => /\ last'.arg \in DOMAIN certs'
             /\ certs'[last'.arg].AutoRenew = last'.body[1].req.autoRenew ]_vars

\* ------------------------------------------- methods that save under the lock

\* The manager's methods that call save() before their deferred Unlock.
LockedMethods == {"AddTag", "RemoveTag", "ApplyCertificate"}

\* Where a goroutine stands that entered save() from one of them.
LockedSaving == {"AddTag:save", "RemoveTag:save", "ApplyCertificate:save"}

\* AddTag, RemoveTag and ApplyCertificate from m.mu.Lock() to the call of
\* save(): an unknown host and a tag the host has make the method return,
\* the deferred Unlock releasing the lock; otherwise the fields are assigned
\* and save() is entered with the write lock held.
MethodLock(p, method, id) ==
    /\ pc[p] = "idle"
    /\ hostsMu = "free"
    /\ IF id \notin DOMAIN hosts
       THEN /\ last' = Resp(method, id, 0, "host not found", "none", "")
            /\ UNCHANGED <<hosts, hostsMu, procVars>>
       ELSE IF method = "AddTag" /\ "t1" \in Range(hosts[id].Tags)
       THEN /\ last' = Resp(method, id, 0, "", "none", "")
            /\ UNCHANGED <<hosts, hostsMu, procVars>>
       ELSE /\ hosts' = [hosts EXCEPT ![id] =
                           IF method = "AddTag" THEN AddTagFields(@, "t1", clock)
                           ELSE IF method = "RemoveTag" THEN RemoveTagFields(@, "t1", clock)
                           ELSE ApplyCertificateFields(@, "c1", <<"c1", ".crt">>,
                                                       <<"c1", ".key">>, clock)]
            /\ hostsMu' = "locked"
            /\ pc' = [pc EXCEPT ![p] = IF method = "AddTag" THEN "AddTag:save"
                                       ELSE IF method = "RemoveTag" THEN "RemoveTag:save"
                                       ELSE "ApplyCertificate:save"]
            /\ loc' = [loc EXCEPT ![p] = [IdleLoc EXCEPT !.id = id]]
            /\ last' = Resp(method, id, 0, "", "none", "save")
    /\ UNCHANGED <<hostsFile, available, enabled, nextId, treeChecked, clock, certVars,
                   routeVars>>

\* save(), entered from Create or from one of the methods above: RLock is
\* granted once no writer holds m.mu, the file is written, and a method that
\* came with the write lock returns and releases it.
Save(p) ==
    /\ pc[p] \in {"create:added"} \cup LockedSaving
    /\ hostsMu = "free"
    /\ hostsFile' = {hosts[i] : i \in DOMAIN hosts}
    /\ pc' = [pc EXCEPT ![p] = IF pc[p] = "create:added" THEN "create:saved" ELSE "idle"]
    /\ loc' = [loc EXCEPT ![p] = IF pc[p] = "create:added" THEN @ ELSE IdleLoc]
    /\ last' = Resp("save", loc[p].id, 0, "", "none", "")
    /\ UNCHANGED <<hosts, available, enabled, nextId, hostsMu, treeChecked, clock, certVars,
                   routeVars>>

\* Hosts created and then tagged, untagged and given a certificate by
\* concurrent goroutines.
NextLock ==
    \/ \E p \in Procs, req \in {BaseReq, TaggedReq} : CreateBegin(p, req)
    \/ \E p \in Procs : CreateWrite(p)
    \/ \E p \in Procs : CreateInsert(p)
    \/ \E p \in Procs : Save(p)
    \/ \E p \in Procs, up \in BOOLEAN : CreateRespond(p, up)
    \/ \E p \in Procs, method \in LockedMethods, id \in HostIds : MethodLock(p, method, id)

\* A goroutine that can take its next step is scheduled in the end.
SpecLock ==
    /\ Init
    /\ [][NextLock]_vars
    /\ \A p \in Procs : WF_vars(Save(p))

\* C34: a goroutine that entered save() from AddTag, RemoveTag or
\* ApplyCertificate returns in the end, and the host store's lock is free
\* when it has.
C34_LockedMethodsReturn ==
    \A p \in Procs : (pc[p] \in LockedSaving) ~> (pc[p] = "idle" /\ hostsMu = "free")

\* ------------------------------------------------ maintenance, asked twice

\* C35: a request enabling maintenance that follows a request enabling it
\* leaves the backup file as it is, so that the route in effect before the
\* first of them is what a later disable restores.
C35_SecondEnableKeepsBackup ==
    [][ ( /\ last.op = "global-maintenance" /\ last.arg = "on"
          /\ last'.op = "global-maintenance" /\ last'.arg = "on"
          /\ maintenanceMode /\ maintenanceMode' )
          => backup' = backup ]_vars

\* C36: a request disabling maintenance while maintenance is off and no
\* backup exists leaves the default route's state file, fragment and symlink
\* as they are.
C36_DisableWhenOffChangesNothing ==
    [][ ( /\ last'.op = "global-maintenance" /\ last'.arg = "off"
          /\ ~maintenanceMode
          /\ backup = <<>> )
          => /\ drState' = drState
             /\ drFragment' = drFragment
             /\ drLink' = drLink ]_vars

\* ------------------------------------------------- certificate bindings

\* Hosts created by concurrent goroutines, certificates applied to them,
\* restarts of the daemon, and updates and overwriting imports of what the
\* restart loaded.
NextBind ==
    \/ \E p \in Procs : CreateBegin(p, BaseReq)
    \/ \E p \in Procs : CreateWrite(p)
    \/ \E p \in Procs : CreateInsert(p)
    \/ \E p \in Procs : SaveCollect(p)
    \/ \E p \in Procs : SaveWriteFile(p)
    \/ \E p \in Procs : CreateRespond(p, TRUE)
    \/ HandleUploadCertificate("site", 700)
    \/ \E id \in HostIds, order \in Orders(DOMAIN hosts) :
           HandleBulkApplyCertificate("c1", <<id>>, "", order)
    \/ Restart("", "valid")
    \/ \E id \in HostIds : HandleUpdateHost(id, BaseReq, TRUE)
    \/ HandleImportHosts(ImportFile, "file", TRUE, TRUE)

SpecBind == Init /\ [][NextBind]_vars

\* A host's certificate binding.
Binding(h) == <<h.CertificateID, h.CertPath, h.KeyPath>>

\* C39: an update and an import leave the certificate binding of every
\* stored host as it was.
C39_UpdateKeepsBinding ==
    [][ last'.op \in {"update", "import"}
          => \A id \in DOMAIN hosts \cap DOMAIN hosts' :
                Binding(hosts'[id]) = Binding(hosts[id]) ]_vars

\* ------------------------------------------------------- a sink that stalls

\* The peer stops reading while the connection stays up: once the send
\* buffer is full a write to it neither completes nor fails, and no write
\* deadline is ever set on the connection.
PeerStalls(c) ==
    /\ conns[c].state = "open"
    /\ conns[c].initPc = 0
    /\ conns' = [conns EXCEPT ![c].state = "stalled"]
    /\ UNCHANGED <<hostVars, treeChecked, clock, last, certVars, drState, drFragment, drLink,
                   htmlDir, backup, maintenanceMode, maintenanceMessage, beforeMaint,
                   hubSent, tickerPc, hubClients, hubRun, procVars, environ, certManager>>

\* Hub.Run's WriteJSON to client c returns, with or without an error.
HubWriteReturns(c) ==
    /\ conns[c].state # "stalled"
    /\ HubWrite(c)

\* The ticker fires while the run has room for the two messages of a round.
TickerFires ==
    /\ hubRun.seq + 2 <= MaxMsgs
    /\ TickerStatus

\* The status broadcaster beside clients that connect and may stall.
NextStall ==
    \/ \E c \in Sinks : HandleWebSocket(c)
    \/ \E c \in Sinks : SendInitialStatus(c)
    \/ \E c \in Sinks : PeerStalls(c)
    \/ \E c \in Sinks : HubWriteReturns(c)
    \/ TickerFires
    \/ TickerMetrics

\* A goroutine that can go on is scheduled in the end: the broadcaster
\* between its two calls, and Hub.Run when its write has returned.
SpecStall ==
    /\ Init
    /\ [][NextStall]_vars
    /\ WF_vars(TickerMetrics)
    /\ \A c \in Sinks : WF_vars(HubWriteReturns(c))

\* C40: the status broadcaster's first Broadcast of a round is followed by
\* the return of its second, whatever the sinks do: Hub.Run comes back to
\* take the message and the timer's loop goes on to wait for the next tick.
C40_BroadcastReturns ==
    (tickerPc = "metrics") ~> (tickerPc = "status")

====
